---- MODULE Spec2Model ----
(***************************************************************************)
(* Model of the initiator side of the MAL interaction layer                *)
(* (src/src/mal/api/operations.go): the OperationContext, its transaction  *)
(* id counter and handlers map, and the operation state machines (Send,    *)
(* Submit, Request, Invoke, Progress, Subscriber, Publisher).              *)
(*                                                                         *)
(* Granularity.  A method call of an operation is cut at the points where  *)
(* the calling goroutine can be interleaved with the rest of the program   *)
(* in a way the caller can observe:                                        *)
(*   - the call itself, up to the receive statement (status check,         *)
(*     register, Ctx.Send);                                                *)
(*   - the evaluation of the operand op.ch of the receive statement, after *)
(*     which the goroutine is parked on that channel (or, when op.ch is    *)
(*     nil, parked forever);                                               *)
(*   - the completion of the receive and everything up to the return.      *)
(* Close, Reset, OperationContext.OnMessage and OperationContext.OnClose   *)
(* are single steps.  An operation has one calling goroutine; Close may be *)
(* called from any goroutine at any time.                                  *)
(***************************************************************************)
EXTENDS Integers, Sequences, FiniteSets, TLC

\* ------------------------------------------------------------------ bounds
\* Largest transaction id the counter is allowed to issue in the model.
MaxTid == 2
\* Largest number of unread messages the peer leaves in one inbound queue.
MaxPending == 1
\* Largest number of frames written to one connection and not yet read.
MaxWire == 2
\* Largest number of connections the outbound task dials.
MaxDial == 2
\* Largest number of connections the accept loop accepts.
MaxAccept == 1
\* The most inbound messages the peer has sent on one connection that handleIn
\* has not read yet.
MaxInbox == 2

\* ------------------------------------------------------- program constants
\* make(chan *Message, 10)
ChanCap == 10
\* transport.ch = make(chan *Message, 10)
TChanCap == 10
\* Offset of the body length in a frame, and length of the fixed header.
VARIABLE_LENGTH_OFFSET == 19
FIXED_HEADER_LENGTH == 23

\* The operation objects the application creates.
Ops == {1}
Tids == 1 .. MaxTid
Bodies == {0, 1}

\* ---------------------------------------------------------------- statuses
_CREATED == "CREATED"
_INITIATED == "INITIATED"
_ACKNOWLEDGED == "ACKNOWLEDGED"
_PROGRESSING == "PROGRESSING"
_REGISTER_INITIATED == "REGISTER_INITIATED"
_REGISTERED == "REGISTERED"
_REREGISTER_INITIATED == "REREGISTER_INITIATED"
_DEREGISTER_INITIATED == "DEREGISTER_INITIATED"
_FINAL == "FINAL"
_CLOSED == "CLOSED"

\* ------------------------------------------------------------------ errors
NoErr == "nil"
BadStatus == "Bad operation status"
BadStage == "Bad return message"
OperationEnds == "Operation ends"
ErrorMessage == "Error message"
SendFailed == "Ctx.Send error"
AlreadyRegistered == "Handler already registered for this transaction"
NotRegistered == "No handler registered for this transaction"

\* --------------------------------------------------- kinds, types, stages
Kinds == {"Send", "Submit", "Request", "Invoke", "Progress", "Subscriber", "Publisher"}

\* The interaction type an operation of kind k puts in its messages and
\* accepts in onMessage.
TypeOf(k) ==
  CASE k = "Send" -> "SEND"
    [] k = "Submit" -> "SUBMIT"
    [] k = "Request" -> "REQUEST"
    [] k = "Invoke" -> "INVOKE"
    [] k = "Progress" -> "PROGRESS"
    [] OTHER -> "PUBSUB"

Types == {"SEND", "SUBMIT", "REQUEST", "INVOKE", "PROGRESS", "PUBSUB"}

\* The interaction stages of each interaction type, by the names the code
\* uses.  A message carries a stage of its own interaction type.
StagesOf(t) ==
  CASE t = "SEND" -> {"SEND"}
    [] t = "SUBMIT" -> {"SUBMIT", "SUBMIT_ACK"}
    [] t = "REQUEST" -> {"REQUEST", "REQUEST_RESPONSE"}
    [] t = "INVOKE" -> {"INVOKE", "INVOKE_ACK", "INVOKE_RESPONSE"}
    [] t = "PROGRESS" -> {"PROGRESS", "PROGRESS_ACK", "PROGRESS_UPDATE", "PROGRESS_RESPONSE"}
    [] OTHER -> {"PUBSUB_REGISTER", "PUBSUB_REGISTER_ACK", "PUBSUB_PUBLISH_REGISTER",
                 "PUBSUB_PUBLISH_REGISTER_ACK", "PUBSUB_PUBLISH", "PUBSUB_NOTIFY",
                 "PUBSUB_DEREGISTER", "PUBSUB_DEREGISTER_ACK",
                 "PUBSUB_PUBLISH_DEREGISTER", "PUBSUB_PUBLISH_DEREGISTER_ACK"}

\* The stages of the messages the peer sends to an operation: the stages of
\* the responder-to-initiator direction and, where the pattern has a single
\* such stage, the stage that opens the pattern (a forged or misdirected
\* message).
InboundStages(t) ==
  CASE t = "SEND" -> {"SEND"}
    [] t = "SUBMIT" -> {"SUBMIT", "SUBMIT_ACK"}
    [] t = "REQUEST" -> {"REQUEST", "REQUEST_RESPONSE"}
    [] t = "INVOKE" -> {"INVOKE_ACK", "INVOKE_RESPONSE"}
    [] t = "PROGRESS" -> {"PROGRESS_ACK", "PROGRESS_UPDATE", "PROGRESS_RESPONSE"}
    [] OTHER -> {"PUBSUB_REGISTER_ACK", "PUBSUB_PUBLISH_REGISTER_ACK", "PUBSUB_NOTIFY",
                 "PUBSUB_DEREGISTER_ACK", "PUBSUB_PUBLISH_DEREGISTER_ACK"}

\* The service coordinates (area, areaVersion, service, operation) every
\* operation of the model is created with, and the ones a message may carry.
OpCoords == <<1, 1, 1, 1>>
Coords == {<<1, 1, 1, 1>>, <<2, 1, 1, 1>>, <<1, 2, 1, 1>>, <<1, 1, 2, 1>>, <<1, 1, 1, 2>>}

\* What a queued message is to the operation that reads it, and the
\* transaction id it was sent under (0: not recorded; no statement reads the
\* transaction id of a message once OnMessage has routed it).
NoMsg == [stage |-> "none", err |-> FALSE, body |-> 0, tid |-> 0]

\* What onMessage tests of an inbound message: its interaction type and its
\* service coordinates.
NoInbound == [type |-> "none", coords |-> <<>>]

VARIABLES
  txcounter,   \* OperationContext.txcounter
  issued,      \* history: every value TransactionId has returned
  handlers,    \* OperationContext.handlers: tid -> operation (0: no entry)
  ctxClosed,   \* OperationContext.OnClose has run
  kind,        \* kind[o]: the concrete type of operation o ("none": not created)
  tid,         \* OperationX.tid
  ch,          \* OperationX.ch: "nil" or "chan" (the channel made by the constructor)
  chClosed,    \* the channel object has been closed
  queue,       \* the channel's buffer
  status,      \* OperationX.status
  response,    \* InvokeOperationX.response / ProgressOperationX.response
  pc,          \* where the calling goroutine of o is
  ev,          \* the last step taken and what it returned or emitted
  th,          \* th[t]: where application goroutine t is, statement by statement
  fatal,       \* the Go runtime has stopped the program (concurrent map access,
               \* send on a closed channel)
  rcv,         \* where the goroutine that delivers inbound messages is, the
               \* transaction id of its message and the operation it found
  sock,        \* the transaction ids of the messages sent by the peer and not yet read
  hctxHandlers, \* HandlerContext.handlers: key -> handler descriptor
  hev,         \* the last call on the HandlerContext and what it returned
  wire,        \* the frames written to one connection and not yet read to their end
  roff,        \* the reader's position on the connection, from the start of wire[1]
  weof,        \* the writing side has closed the connection
  fev,         \* the last writeMessage or readMessage and what it did
  tch,         \* TCPTransport.ch: number of messages in the buffer
  tchClosed,   \* TCPTransport.ch has been closed
  running,     \* TCPTransport.running
  listen,      \* TCPTransport.listen: "none", "open" or "closed"
  conns,       \* TCPTransport.conns: host -> connection (0: no entry)
  cnxState,    \* each connection dialed: "none", "open", "broken" or "closed"
  outPc,       \* where the handleOut goroutine is
  acceptPc,    \* where the handleConn goroutine is
  inbound,     \* each connection accepted: its socket and where its handleIn goroutine is
  txWait,      \* a caller of Transmit is suspended on the channel send
  tev          \* the last step of the transport and what came of it

vars == <<txcounter, issued, handlers, ctxClosed, kind, tid, ch, chClosed, queue,
          status, response, pc, ev, th, fatal, rcv, sock, hctxHandlers, hev,
          wire, roff, weof, fev,
          tch, tchClosed, running, listen, conns, cnxState, outPc, acceptPc,
          inbound, txWait, tev>>

\* The variables of the OperationContext and its operations.
opvars == <<txcounter, issued, handlers, ctxClosed, kind, tid, ch, chClosed, queue,
            status, response, pc, ev>>

\* The variables of the statement-by-statement view of the goroutines.
gvars == <<th, fatal, rcv, sock>>

\* The variables of the HandlerContext.
hvars == <<hctxHandlers, hev>>

\* The variables of one TCP connection seen as a stream of frames.
fvars == <<wire, roff, weof, fev>>

\* The variables of the TCP transport and its goroutines.
tvars == <<tch, tchClosed, running, listen, conns, cnxState, outPc, acceptPc,
           inbound, txWait, tev>>

\* What the calls on operations leave alone.
xvars == <<gvars, hvars, fvars, tvars>>

\* The application goroutines of the statement-by-statement view.
Threads == {1, 2}

\* A goroutine that is in no call: the operation and transaction id it works
\* on, the error and message it is about to return, what it read from the
\* map, and the transaction ids TransactionId has returned to it, in order.
IdleThread(ids) ==
  [at |-> "idle", op |-> 0, tid |-> 0, err |-> NoErr, msg |-> NoMsg, old |-> 0, ids |-> ids]

Idle == [m |-> "none", at |-> "idle"]

\* The delivering goroutine before its first message.
NoDelivery == [at |-> "read", tid |-> 0, op |-> 0]

\* An event: the method or handler that took the step (act), what the step was
\* (ph: "return" a call returned, "wait" a call reached its receive statement,
\* "park" or "stuck" the receive's operand was evaluated, "again" a loop
\* iteration, "new", "enqueued", "dropped", "unrouted", "nilchan", "onclose"),
\* the operation and its status before the step (was), the message the step
\* took from the queue (got), the error and message returned, the messages
\* handed to Ctx.Send that it accepted, and, for OnMessage, the interaction type
\* and the coordinates of the message it was called with (inb).
Event(act, ph, o, err, msg, out) ==
  [act |-> act, ph |-> ph, op |-> o,
   was |-> IF o \in Ops /\ kind[o] # "none" THEN status[o] ELSE "none",
   got |-> NoMsg, err |-> err, msg |-> msg, out |-> out, inb |-> NoInbound]

\* The outbound message built by a method of o: stage and transaction id.
OutMsg(stage, o) == [stage |-> stage, tid |-> tid[o]]

\* ------------------------------------------------------- OperationContext

\* A register that replaces the entry it finds: the fault C18 must detect.
registerOverwrites(h, t, o) == [err |-> NoErr, handlers |-> [h EXCEPT ![t] = o]]

\* OperationContext.register, on the map h: the error and the map after.
register(h, t, o) ==
  IF h[t] # 0
    THEN [err |-> AlreadyRegistered, handlers |-> h]
    ELSE [err |-> NoErr, handlers |-> [h EXCEPT ![t] = o]]

\* OperationContext.deregister, on the map h: the error and the map after.
deregister(h, t) ==
  IF h[t] = 0
    THEN [err |-> NotRegistered, handlers |-> h]
    ELSE [err |-> NoErr, handlers |-> [h EXCEPT ![t] = 0]]

\* A TransactionId that returns the counter as it finds it, after the first
\* call: the fault C16 must detect.
TransactionIdWithoutAdd == IF txcounter = 0 THEN 1 ELSE txcounter

\* OperationContext.TransactionId: atomic.AddUint64(&txcounter, 1) returns the
\* new value of the counter.
TransactionId == txcounter + 1

\* --------------------------------------------------------------- OperationX

\* OperationX.verify
verify(o, c) ==
  (c[1] = OpCoords[1]) /\ (c[2] = OpCoords[2]) /\ (c[3] = OpCoords[3]) /\ (c[4] = OpCoords[4])

\* A finalize that forgets the deregistration: the fault C1 must detect.
finalizeKeepsEntry(h, o) == [status |-> _FINAL, handlers |-> h]

\* OperationX.finalize, on the map h: the status and the map after.
finalize(h, o) ==
  [status |-> _FINAL,
   handlers |-> IF ch[o] # "nil" THEN deregister(h, tid[o]).handlers ELSE h]

\* The frame of a call that returns without touching the operation.
Returns(act, o, err, msg) ==
  /\ ev' = Event(act, "return", o, err, msg, <<>>)
  /\ UNCHANGED <<txcounter, issued, handlers, ctxClosed, kind, tid, ch, chClosed,
                 queue, status, response, pc>>

\* A call that ends in finalize(), on the map h, and returns err without a
\* message.
FinalizeAndReturn(act, o, err, h) ==
  /\ status' = [status EXCEPT ![o] = finalize(h, o).status]
  /\ handlers' = finalize(h, o).handlers
  /\ ev' = Event(act, "return", o, err, NoMsg, <<>>)
  /\ UNCHANGED <<txcounter, issued, ctxClosed, kind, tid, ch, chClosed, queue,
                 response, pc>>

\* The constructors NewSendOperation .. NewPublisherOperation.
NewOperation(o, k) ==
  /\ kind[o] = "none"
  /\ txcounter < MaxTid
  /\ txcounter' = TransactionId
  /\ issued' = issued \cup {TransactionId}
  /\ kind' = [kind EXCEPT ![o] = k]
  /\ tid' = [tid EXCEPT ![o] = TransactionId]
  /\ ch' = [ch EXCEPT ![o] = IF k = "Send" THEN "nil" ELSE "chan"]
  /\ status' = [status EXCEPT ![o] = _CREATED]
  /\ ev' = Event("New", "new", o, NoErr, NoMsg, <<>>)
  /\ UNCHANGED <<handlers, ctxClosed, chClosed, queue, response, pc>>

\* A Close that drops its reference to the channel without closing it: the
\* fault C3 must detect.
CloseKeepsChannelOpen(o) ==
  /\ kind[o] # "none"
  /\ IF status[o] = _CLOSED
       THEN /\ ev' = Event("Close", "return", o, NoErr, NoMsg, <<>>)
            /\ UNCHANGED <<handlers, ch, status>>
       ELSE LET d == deregister(handlers, tid[o])
            IN /\ status' = [status EXCEPT ![o] = _CLOSED]
               /\ IF ch[o] # "nil"
                    THEN /\ handlers' = d.handlers
                         /\ ch' = [ch EXCEPT ![o] = "nil"]
                         /\ ev' = Event("Close", "return", o, d.err, NoMsg, <<>>)
                    ELSE /\ ev' = Event("Close", "return", o, NoErr, NoMsg, <<>>)
                         /\ UNCHANGED <<handlers, ch>>
  /\ UNCHANGED <<txcounter, issued, ctxClosed, kind, tid, chClosed, queue, response, pc>>

\* A Close that closes the channel and keeps its reference to it: the fault
\* C21 must detect.
CloseKeepsReference(o) ==
  /\ kind[o] # "none"
  /\ IF (status[o] = _CLOSED) \/ (ch[o] = "nil")
       THEN /\ status' = [status EXCEPT ![o] = _CLOSED]
            /\ UNCHANGED <<handlers, chClosed>>
       ELSE /\ status' = [status EXCEPT ![o] = _CLOSED]
            /\ handlers' = deregister(handlers, tid[o]).handlers
            /\ chClosed' = [chClosed EXCEPT ![o] = TRUE]
  /\ ev' = Event("Close", "return", o, NoErr, NoMsg, <<>>)
  /\ UNCHANGED <<txcounter, issued, ctxClosed, kind, tid, ch, queue, response, pc>>

\* OperationX.Close
Close(o) ==
  /\ kind[o] # "none"
  /\ IF status[o] = _CLOSED
       THEN /\ ev' = Event("Close", "return", o, NoErr, NoMsg, <<>>)
            /\ UNCHANGED <<handlers, chClosed, ch, status>>
       ELSE LET s == _CLOSED    \* op.status = _CLOSED, read back below
                d == deregister(handlers, tid[o])
            IN /\ status' = [status EXCEPT ![o] = s]
               /\ IF ch[o] # "nil"
                    THEN /\ handlers' = IF (s # _CREATED) /\ (s # _FINAL)
                                          THEN d.handlers ELSE handlers
                         /\ chClosed' = [chClosed EXCEPT ![o] = TRUE]
                         /\ ch' = [ch EXCEPT ![o] = "nil"]
                         /\ ev' = Event("Close", "return", o,
                                        IF (s # _CREATED) /\ (s # _FINAL) THEN d.err ELSE NoErr,
                                        NoMsg, <<>>)
                    ELSE /\ ev' = Event("Close", "return", o, NoErr, NoMsg, <<>>)
                         /\ UNCHANGED <<handlers, chClosed, ch>>
  /\ UNCHANGED <<txcounter, issued, ctxClosed, kind, tid, queue, response, pc>>

\* A Reset that reuses the transaction id of the finished transaction: the
\* fault C6 must detect.
ResetKeepsTid(o) ==
  /\ kind[o] # "none"
  /\ pc[o] = Idle
  /\ IF status[o] # _FINAL
       THEN Returns("Reset", o, BadStatus, NoMsg)
       ELSE /\ txcounter < MaxTid
            /\ status' = [status EXCEPT ![o] = _CREATED]
            /\ ev' = Event("Reset", "return", o, NoErr, NoMsg, <<>>)
            /\ UNCHANGED <<txcounter, issued, tid, handlers, ctxClosed, kind, ch, chClosed,
                           queue, response, pc>>

\* OperationX.Reset
Reset(o) ==
  /\ kind[o] # "none"
  /\ pc[o] = Idle
  /\ IF status[o] # _FINAL
       THEN Returns("Reset", o, BadStatus, NoMsg)
       ELSE /\ txcounter < MaxTid
            /\ txcounter' = TransactionId
            /\ issued' = issued \cup {TransactionId}
            /\ tid' = [tid EXCEPT ![o] = TransactionId]
            /\ status' = [status EXCEPT ![o] = _CREATED]
            /\ ev' = Event("Reset", "return", o, NoErr, NoMsg, <<>>)
            /\ UNCHANGED <<handlers, ctxClosed, kind, ch, chClosed, queue, response, pc>>

\* ------------------------------------------------------------ method calls
\* Ctx.Send is code of package mal: it returns nil or an error.
SendOutcomes == {TRUE, FALSE}

\* What Submit, Request, Invoke, Progress and the two Register have in common,
\* up to their receive statement: the status check, the new status st, the
\* registration in the OperationContext and the emission of the message.
Initiate(act, o, st, stage) ==
  IF status[o] # _CREATED
    THEN Returns(act, o, BadStatus, NoMsg)
    ELSE LET r == register(handlers, tid[o], o)
         IN IF r.err # NoErr
              THEN FinalizeAndReturn(act, o, r.err, r.handlers)
              ELSE \E ok \in SendOutcomes :
                     IF ~ok
                       THEN FinalizeAndReturn(act, o, SendFailed, r.handlers)
                       ELSE /\ status' = [status EXCEPT ![o] = st]
                            /\ handlers' = r.handlers
                            /\ pc' = [pc EXCEPT ![o] = [m |-> act, at |-> "recv"]]
                            /\ ev' = Event(act, "wait", o, NoErr, NoMsg, <<OutMsg(stage, o)>>)
                            /\ UNCHANGED <<txcounter, issued, ctxClosed, kind, tid, ch,
                                           chClosed, queue, response>>

\* A call that passed its status check and goes to its receive statement
\* without emitting anything.
Waits(act, o) ==
  /\ pc' = [pc EXCEPT ![o] = [m |-> act, at |-> "recv"]]
  /\ ev' = Event(act, "wait", o, NoErr, NoMsg, <<>>)
  /\ UNCHANGED <<txcounter, issued, handlers, ctxClosed, kind, tid, ch, chClosed,
                 queue, status, response>>

\* What the two Deregister have in common up to their receive statement.
InitiateDeregister(act, o, stage) ==
  IF status[o] # _REGISTERED
    THEN Returns(act, o, BadStatus, NoMsg)
    ELSE \E ok \in SendOutcomes :
           IF ~ok
             THEN FinalizeAndReturn(act, o, SendFailed, handlers)
             ELSE /\ status' = [status EXCEPT ![o] = _DEREGISTER_INITIATED]
                  /\ pc' = [pc EXCEPT ![o] = [m |-> act, at |-> "recv"]]
                  /\ ev' = Event(act, "wait", o, NoErr, NoMsg, <<OutMsg(stage, o)>>)
                  /\ UNCHANGED <<txcounter, issued, handlers, ctxClosed, kind, tid, ch,
                                 chClosed, queue, response>>

\* The cached response of GetResponse, with its error signal.
CachedResponse(act, o) ==
  Returns(act, o, IF response[o].err THEN ErrorMessage ELSE NoErr, response[o])

Callable(o, k) == (kind[o] = k) /\ (pc[o] = Idle)

\* SendOperationX.Send
Send(o) ==
  /\ Callable(o, "Send")
  /\ IF status[o] # _CREATED
       THEN Returns("Send", o, BadStatus, NoMsg)
       ELSE \E ok \in SendOutcomes :
              /\ status' = [status EXCEPT ![o] = _FINAL]
              /\ ev' = Event("Send", "return", o, IF ok THEN NoErr ELSE SendFailed, NoMsg,
                             IF ok THEN <<OutMsg("SEND", o)>> ELSE <<>>)
              /\ UNCHANGED <<txcounter, issued, handlers, ctxClosed, kind, tid, ch,
                             chClosed, queue, response, pc>>

\* SubmitOperationX.Submit, up to the receive
Submit(o) == Callable(o, "Submit") /\ Initiate("Submit", o, _INITIATED, "SUBMIT")

\* RequestOperationX.Request, up to the receive
Request(o) == Callable(o, "Request") /\ Initiate("Request", o, _INITIATED, "REQUEST")

\* InvokeOperationX.Invoke, up to the receive
Invoke(o) == Callable(o, "Invoke") /\ Initiate("Invoke", o, _INITIATED, "INVOKE")

\* A GetResponse without the cached response: the fault C8 must detect.
InvokeGetResponseNoCache(o) ==
  /\ Callable(o, "Invoke")
  /\ IF status[o] # _ACKNOWLEDGED
       THEN Returns("InvokeGetResponse", o, BadStatus, NoMsg)
       ELSE Waits("InvokeGetResponse", o)

\* InvokeOperationX.GetResponse, up to the receive
InvokeGetResponse(o) ==
  /\ Callable(o, "Invoke")
  /\ IF (status[o] = _FINAL) /\ (response[o] # NoMsg)
       THEN CachedResponse("InvokeGetResponse", o)
       ELSE IF status[o] # _ACKNOWLEDGED
              THEN Returns("InvokeGetResponse", o, BadStatus, NoMsg)
              ELSE Waits("InvokeGetResponse", o)

\* ProgressOperationX.Progress, up to the receive
Progress(o) == Callable(o, "Progress") /\ Initiate("Progress", o, _INITIATED, "PROGRESS")

\* ProgressOperationX.GetUpdate, up to the receive
GetUpdate(o) ==
  /\ Callable(o, "Progress")
  /\ IF (status[o] # _ACKNOWLEDGED) /\ (status[o] # _PROGRESSING)
       THEN Returns("GetUpdate", o, BadStatus, NoMsg)
       ELSE Waits("GetUpdate", o)

\* ProgressOperationX.GetResponse, up to the receive
ProgressGetResponse(o) ==
  /\ Callable(o, "Progress")
  /\ IF (status[o] = _FINAL) /\ (response[o] # NoMsg)
       THEN CachedResponse("ProgressGetResponse", o)
       ELSE IF (status[o] # _ACKNOWLEDGED) /\ (status[o] # _PROGRESSING)
              THEN Returns("ProgressGetResponse", o, BadStatus, NoMsg)
              ELSE Waits("ProgressGetResponse", o)

\* A Register that is also accepted in REGISTERED, as a re-registration: the
\* fault C22 must detect.
SubscriberRegisterAgain(o) ==
  /\ Callable(o, "Subscriber")
  /\ IF status[o] = _REGISTERED
       THEN /\ status' = [status EXCEPT ![o] = _REREGISTER_INITIATED]
            /\ pc' = [pc EXCEPT ![o] = [m |-> "SubscriberRegister", at |-> "recv"]]
            /\ ev' = Event("SubscriberRegister", "wait", o, NoErr, NoMsg,
                           <<OutMsg("PUBSUB_REGISTER", o)>>)
            /\ UNCHANGED <<txcounter, issued, handlers, ctxClosed, kind, tid, ch,
                           chClosed, queue, response>>
       ELSE Initiate("SubscriberRegister", o, _REGISTER_INITIATED, "PUBSUB_REGISTER")

\* SubscriberOperationX.Register, up to the receive
SubscriberRegister(o) ==
  Callable(o, "Subscriber")
    /\ Initiate("SubscriberRegister", o, _REGISTER_INITIATED, "PUBSUB_REGISTER")

\* SubscriberOperationX.GetNotify, up to the receive
GetNotify(o) ==
  /\ Callable(o, "Subscriber")
  /\ IF (status[o] # _REGISTERED) /\ (status[o] # _REREGISTER_INITIATED)
          /\ (status[o] # _DEREGISTER_INITIATED)
       THEN Returns("GetNotify", o, BadStatus, NoMsg)
       ELSE Waits("GetNotify", o)

\* SubscriberOperationX.Deregister, up to the receive
SubscriberDeregister(o) ==
  Callable(o, "Subscriber")
    /\ InitiateDeregister("SubscriberDeregister", o, "PUBSUB_DEREGISTER")

\* PublisherOperationX.Register, up to the receive
PublisherRegister(o) ==
  Callable(o, "Publisher")
    /\ Initiate("PublisherRegister", o, _REGISTER_INITIATED, "PUBSUB_PUBLISH_REGISTER")

\* A Publish that ends the interaction after it has published: the fault C12
\* must detect.
PublishFinalizes(o) ==
  /\ Callable(o, "Publisher")
  /\ IF status[o] # _REGISTERED
       THEN Returns("Publish", o, BadStatus, NoMsg)
       ELSE \E ok \in SendOutcomes :
              /\ status' = [status EXCEPT ![o] = finalize(handlers, o).status]
              /\ handlers' = finalize(handlers, o).handlers
              /\ ev' = Event("Publish", "return", o, IF ok THEN NoErr ELSE SendFailed, NoMsg,
                             IF ok THEN <<OutMsg("PUBSUB_PUBLISH", o)>> ELSE <<>>)
              /\ UNCHANGED <<txcounter, issued, ctxClosed, kind, tid, ch, chClosed, queue,
                             response, pc>>

\* A Publish without its status check: the fault C2 must detect.
PublishUnchecked(o) ==
  /\ Callable(o, "Publisher")
  /\ \E ok \in SendOutcomes :
       IF ~ok
         THEN FinalizeAndReturn("Publish", o, SendFailed, handlers)
         ELSE /\ ev' = Event("Publish", "return", o, NoErr, NoMsg,
                             <<OutMsg("PUBSUB_PUBLISH", o)>>)
              /\ UNCHANGED <<txcounter, issued, handlers, ctxClosed, kind, tid, ch,
                             chClosed, queue, status, response, pc>>

\* PublisherOperationX.Publish
Publish(o) ==
  /\ Callable(o, "Publisher")
  /\ IF status[o] # _REGISTERED
       THEN Returns("Publish", o, BadStatus, NoMsg)
       ELSE \E ok \in SendOutcomes :
              IF ~ok
                THEN FinalizeAndReturn("Publish", o, SendFailed, handlers)
                ELSE /\ ev' = Event("Publish", "return", o, NoErr, NoMsg,
                                    <<OutMsg("PUBSUB_PUBLISH", o)>>)
                     /\ UNCHANGED <<txcounter, issued, handlers, ctxClosed, kind, tid, ch,
                                    chClosed, queue, status, response, pc>>

\* PublisherOperationX.Deregister, up to the receive
PublisherDeregister(o) ==
  Callable(o, "Publisher")
    /\ InitiateDeregister("PublisherDeregister", o, "PUBSUB_PUBLISH_DEREGISTER")

\* ------------------------------------------------- the receive and after it
\* What the code after a receive decides: the status it assigns (st) unless it
\* calls finalize() (fin), the error and the message it returns, the cached
\* response after it (resp), and whether it loops to the receive (again).
Result(st, fin, err, msg, resp, again) ==
  [st |-> st, fin |-> fin, err |-> err, msg |-> msg, resp |-> resp, again |-> again]

ErrOf(msg) == IF msg.err THEN ErrorMessage ELSE NoErr

\* !more: the channel is closed and empty.
Ended(o) == Result(status[o], TRUE, OperationEnds, NoMsg, response[o], FALSE)

\* The stage of the message is not the one waited for.
Bad(o) == Result(status[o], TRUE, BadStage, NoMsg, response[o], FALSE)

\* SubmitOperationX.Submit, after the receive
SubmitReply(o, msg) ==
  IF msg.stage # "SUBMIT_ACK"
    THEN Bad(o)
    ELSE Result(status[o], TRUE, ErrOf(msg), msg, response[o], FALSE)

\* A Request that loses the reply it received: the fault C7 must detect.
RequestReplyDropsMessage(o, msg) ==
  IF msg.stage # "REQUEST_RESPONSE"
    THEN Bad(o)
    ELSE Result(status[o], TRUE, ErrOf(msg), NoMsg, response[o], FALSE)

\* RequestOperationX.Request, after the receive
RequestReply(o, msg) ==
  IF msg.stage # "REQUEST_RESPONSE"
    THEN Bad(o)
    ELSE Result(status[o], TRUE, ErrOf(msg), msg, response[o], FALSE)

\* An Invoke that does not look at the error flag of the acknowledgement: the
\* fault C14 must detect.
InvokeReplyIgnoresErrorFlag(o, msg) ==
  IF msg.stage # "INVOKE_ACK"
    THEN Bad(o)
    ELSE Result(_ACKNOWLEDGED, FALSE, NoErr, msg, response[o], FALSE)

\* InvokeOperationX.Invoke, after the receive
InvokeReply(o, msg) ==
  IF msg.stage # "INVOKE_ACK"
    THEN Bad(o)
    ELSE Result(_ACKNOWLEDGED, msg.err, ErrOf(msg), msg, response[o], FALSE)

\* InvokeOperationX.GetResponse, after the receive
InvokeGetResponseReply(o, msg) ==
  IF msg.stage # "INVOKE_RESPONSE"
    THEN Bad(o)
    ELSE Result(status[o], TRUE, ErrOf(msg), msg, msg, FALSE)

\* ProgressOperationX.Progress, after the receive
ProgressReply(o, msg) ==
  IF msg.stage # "PROGRESS_ACK"
    THEN Bad(o)
    ELSE Result(_ACKNOWLEDGED, msg.err, ErrOf(msg), msg, response[o], FALSE)

\* A GetUpdate that hands the response out as if it were an update: the fault
\* C9 must detect.
GetUpdateReplyReturnsResponse(o, msg) ==
  IF (msg.stage # "PROGRESS_UPDATE") /\ (msg.stage # "PROGRESS_RESPONSE")
    THEN Bad(o)
    ELSE IF msg.stage = "PROGRESS_UPDATE"
           THEN Result(_PROGRESSING, msg.err, ErrOf(msg), msg, response[o], FALSE)
           ELSE Result(status[o], TRUE, ErrOf(msg), msg, msg, FALSE)

\* ProgressOperationX.GetUpdate, after the receive
GetUpdateReply(o, msg) ==
  IF (msg.stage # "PROGRESS_UPDATE") /\ (msg.stage # "PROGRESS_RESPONSE")
    THEN Bad(o)
    ELSE IF msg.stage = "PROGRESS_UPDATE"
           THEN Result(_PROGRESSING, msg.err, ErrOf(msg), msg, response[o], FALSE)
           ELSE Result(status[o], TRUE, NoErr, NoMsg, msg, FALSE)

\* A GetResponse that skips the updates and waits on: the fault C10 must
\* detect.
ProgressGetResponseSkipsUpdates(o, msg) ==
  IF msg.stage = "PROGRESS_UPDATE"
    THEN Result(status[o], FALSE, NoErr, NoMsg, response[o], TRUE)
    ELSE IF msg.stage # "PROGRESS_RESPONSE"
           THEN Bad(o)
           ELSE Result(status[o], TRUE, ErrOf(msg), msg, msg, FALSE)

\* ProgressOperationX.GetResponse, after the receive
ProgressGetResponseReply(o, msg) ==
  IF msg.stage # "PROGRESS_RESPONSE"
    THEN Bad(o)
    ELSE Result(status[o], TRUE, ErrOf(msg), msg, msg, FALSE)

\* SubscriberOperationX.Register, after the receive
SubscriberRegisterReply(o, msg) ==
  IF msg.stage # "PUBSUB_REGISTER_ACK"
    THEN Bad(o)
    ELSE Result(_REGISTERED, msg.err, ErrOf(msg), msg, response[o], FALSE)

\* SubscriberOperationX.GetNotify, after the receive
GetNotifyReply(o, msg) ==
  IF msg.stage # "PUBSUB_NOTIFY"
    THEN Bad(o)
    ELSE Result(status[o], msg.err, ErrOf(msg), msg, response[o], FALSE)

\* A Deregister that does not expect a PUBSUB_NOTIFY while it waits for its
\* acknowledgement: the fault C11 must detect.
SubscriberDeregisterReplyNoDrain(o, msg) ==
  IF msg.stage # "PUBSUB_DEREGISTER_ACK"
    THEN Bad(o)
    ELSE Result(status[o], TRUE, ErrOf(msg), msg, response[o], FALSE)

\* SubscriberOperationX.Deregister, one iteration of the loop after the receive
SubscriberDeregisterReply(o, msg) ==
  IF msg.stage = "PUBSUB_NOTIFY"
    THEN Result(status[o], FALSE, NoErr, NoMsg, response[o], TRUE)
    ELSE IF msg.stage # "PUBSUB_DEREGISTER_ACK"
           THEN Bad(o)
           ELSE Result(status[o], TRUE, ErrOf(msg), msg, response[o], FALSE)

\* PublisherOperationX.Register, after the receive
PublisherRegisterReply(o, msg) ==
  IF msg.stage # "PUBSUB_PUBLISH_REGISTER_ACK"
    THEN Bad(o)
    ELSE Result(_REGISTERED, msg.err, ErrOf(msg), msg, response[o], FALSE)

\* PublisherOperationX.Deregister, after the receive
PublisherDeregisterReply(o, msg) ==
  IF msg.stage # "PUBSUB_PUBLISH_DEREGISTER_ACK"
    THEN Bad(o)
    ELSE Result(status[o], TRUE, ErrOf(msg), msg, response[o], FALSE)

Reply(m, o, msg) ==
  CASE m = "Submit" -> SubmitReply(o, msg)
    [] m = "Request" -> RequestReply(o, msg)
    [] m = "Invoke" -> InvokeReply(o, msg)
    [] m = "InvokeGetResponse" -> InvokeGetResponseReply(o, msg)
    [] m = "Progress" -> ProgressReply(o, msg)
    [] m = "GetUpdate" -> GetUpdateReply(o, msg)
    [] m = "ProgressGetResponse" -> ProgressGetResponseReply(o, msg)
    [] m = "SubscriberRegister" -> SubscriberRegisterReply(o, msg)
    [] m = "GetNotify" -> GetNotifyReply(o, msg)
    [] m = "SubscriberDeregister" -> SubscriberDeregisterReply(o, msg)
    [] m = "PublisherRegister" -> PublisherRegisterReply(o, msg)
    [] OTHER -> PublisherDeregisterReply(o, msg)

\* The operand op.ch of the receive statement "msg, more := <-op.ch" is
\* evaluated: the goroutine is parked on the channel, or, op.ch being nil,
\* blocks forever.
EvalCh(o) ==
  /\ pc[o].at = "recv"
  /\ pc' = [pc EXCEPT ![o] = [m |-> @.m, at |-> IF ch[o] = "nil" THEN "stuck" ELSE "parked"]]
  /\ ev' = Event(pc[o].m, IF ch[o] = "nil" THEN "stuck" ELSE "park", o, NoErr, NoMsg, <<>>)
  /\ UNCHANGED <<txcounter, issued, handlers, ctxClosed, kind, tid, ch, chClosed,
                 queue, status, response>>

\* The channel operation completes: with the first buffered message, or, the
\* channel being closed and empty, with more = false.
Receive(q, closed) ==
  IF q # <<>>
    THEN [more |-> TRUE, msg |-> Head(q), rest |-> Tail(q)]
    ELSE [more |-> FALSE, msg |-> NoMsg, rest |-> q]

\* The receive of a parked call completes and the call runs to its return
\* (or to the next evaluation of its receive statement).
Recv(o) ==
  /\ pc[o].at = "parked"
  /\ IF queue[o] # <<>> THEN TRUE ELSE chClosed[o]
  /\ LET got == Receive(queue[o], chClosed[o])
         r == IF got.more THEN Reply(pc[o].m, o, got.msg) ELSE Ended(o)
         f == finalize(handlers, o)
     IN /\ queue' = [queue EXCEPT ![o] = got.rest]
        /\ status' = [status EXCEPT ![o] = IF r.fin THEN f.status ELSE r.st]
        /\ handlers' = IF r.fin THEN f.handlers ELSE handlers
        /\ response' = [response EXCEPT ![o] = r.resp]
        /\ pc' = [pc EXCEPT ![o] = IF r.again THEN [m |-> @.m, at |-> "recv"] ELSE Idle]
        /\ ev' = [Event(pc[o].m, IF r.again THEN "again" ELSE "return", o, r.err, r.msg, <<>>)
                    EXCEPT !.got = got.msg]
  /\ UNCHANGED <<txcounter, issued, ctxClosed, kind, tid, ch, chClosed>>

\* ------------------------------------------------------------ the listener
\* An onMessage that tests the interaction type only: the fault C13 must
\* detect.
AcceptsAnyService(o, ty, c) == (kind[o] # "Send") /\ (ty = TypeOf(kind[o]))

\* The operation's onMessage accepts the message: verify and the interaction
\* type of the operation's pattern.  SendOperationX.onMessage accepts nothing.
Accepts(o, ty, c) ==
  (kind[o] # "Send") /\ verify(o, c) /\ (ty = TypeOf(kind[o]))

\* The interaction types of the messages the peer sends to operation o: the
\* type of o's pattern and one other type (onMessage compares the type with one
\* constant, so every other type takes the same branch).
InboundTypes(o) ==
  {TypeOf(kind[o]), IF TypeOf(kind[o]) = "SEND" THEN "SUBMIT" ELSE "SEND"}

\* OperationContext.OnMessage and the onMessage of the operation it finds.
\* The Context delivers to the endpoint only while it is registered.  If
\* tagged, the queued message keeps its transaction id, and every message has
\* the same body.
Route(tagged) ==
  /\ ~ctxClosed
  /\ \E t \in Tids :
       LET o == handlers[t]
       IN IF o = 0
            THEN /\ ev' = Event("OnMessage", "unrouted", 0, NoErr, NoMsg, <<>>)
                 /\ UNCHANGED queue
            ELSE \E ty \in InboundTypes(o), c \in Coords :
                   IF ~Accepts(o, ty, c)
                     THEN /\ ev' = [Event("OnMessage", "dropped", o, NoErr, NoMsg, <<>>)
                                      EXCEPT !.inb = [type |-> ty, coords |-> c]]
                          /\ UNCHANGED queue
                     ELSE IF ch[o] = "nil"
                            THEN \* a send on a nil channel blocks for ever
                                 /\ ev' = [Event("OnMessage", "nilchan", o, NoErr, NoMsg, <<>>)
                                             EXCEPT !.inb = [type |-> ty, coords |-> c]]
                                 /\ UNCHANGED queue
                            ELSE \E st \in InboundStages(ty), e \in BOOLEAN,
                                    b \in IF tagged THEN {0} ELSE Bodies :
                                   LET msg == [stage |-> st, err |-> e, body |-> b,
                                               tid |-> IF tagged THEN t ELSE 0]
                                   IN /\ Len(queue[o]) < ChanCap
                                      /\ Len(queue[o]) < MaxPending
                                      /\ queue' = [queue EXCEPT ![o] = Append(@, msg)]
                                      /\ ev' = [Event("OnMessage", "enqueued", o, NoErr, msg, <<>>)
                                                  EXCEPT !.inb = [type |-> ty, coords |-> c]]
  /\ UNCHANGED <<txcounter, issued, handlers, ctxClosed, kind, tid, ch, chClosed,
                 status, response, pc>>

\* OnMessage, the transaction id of the message left out.
OnMessage == Route(FALSE)

\* An OnMessage that hands the message to every operation that accepts it,
\* whatever the transaction id it is registered under: the fault C35 must
\* detect.
OnMessageAnyOperation ==
  /\ ~ctxClosed
  /\ \E t \in Tids, o \in Ops : \E ty \in InboundTypes(o), c \in Coords :
       \E st \in InboundStages(ty), e \in BOOLEAN, b \in Bodies :
         LET msg == [stage |-> st, err |-> e, body |-> b, tid |-> t]
         IN /\ kind[o] # "none"
            /\ Accepts(o, ty, c)
            /\ ch[o] # "nil"
            /\ Len(queue[o]) < ChanCap
            /\ Len(queue[o]) < MaxPending
            /\ queue' = [queue EXCEPT ![o] = Append(@, msg)]
            /\ ev' = [Event("OnMessage", "enqueued", o, NoErr, msg, <<>>)
                        EXCEPT !.inb = [type |-> ty, coords |-> c]]
  /\ UNCHANGED <<txcounter, issued, handlers, ctxClosed, kind, tid, ch, chClosed,
                 status, response, pc>>

\* OnMessage, the queued message carrying its transaction id.
OnMessageTid == Route(TRUE)

\* OperationContext.OnClose: onClose of every registered operation, each of
\* which does nothing.
onClose(o) == UNCHANGED <<ch, chClosed, queue, status>>

OnClose ==
  /\ ~ctxClosed
  /\ ctxClosed' = TRUE
  /\ \A t \in Tids : (handlers[t] # 0) => onClose(handlers[t])
  /\ UNCHANGED <<ch, chClosed, queue, status>>
  /\ ev' = Event("OnClose", "onclose", 0, NoErr, NoMsg, <<>>)
  /\ UNCHANGED <<txcounter, issued, handlers, kind, tid, response, pc>>

\* ------------------------------------------------------------ HandlerContext
\* The responder endpoint (src/src/mal/api/handlers.go): its map of handler
\* descriptors, the six Register...Handler methods and the dispatch of
\* inbound messages, OnMessage.

\* The service coordinates the application registers handlers for; messages
\* carry these and the others of Coords.
HandlerKeys == {<<1, 1, 1, 1>>, <<1, 1, 1, 2>>}

\* The transaction ids of the messages delivered to the HandlerContext.
HTids == {1, 2}

\* _SEND_HANDLER .. _BROKER_HANDLER
HandlerTypes == {"SEND_HANDLER", "SUBMIT_HANDLER", "REQUEST_HANDLER", "INVOKE_HANDLER",
                 "PROGRESS_HANDLER", "BROKER_HANDLER"}

\* The handler type OnMessage asks getHandler for, by interaction type.
HandlerTypeOf(ty) ==
  CASE ty = "SEND" -> "SEND_HANDLER"
    [] ty = "SUBMIT" -> "SUBMIT_HANDLER"
    [] ty = "REQUEST" -> "REQUEST_HANDLER"
    [] ty = "INVOKE" -> "INVOKE_HANDLER"
    [] ty = "PROGRESS" -> "PROGRESS_HANDLER"
    [] OTHER -> "BROKER_HANDLER"

\* The callbacks the application registers.
Callbacks == {1, 2}

\* key(area, areaVersion, service, operation): the key of the handlers map.
\* The function is not part of the sources at hand; it is taken to be the
\* 4-tuple itself, as the specification has it ("Lookup key is the 4-tuple").
key(c) == c

\* No descriptor under a key (nil), and a descriptor.
NoDesc == [handlerType |-> "none", coords |-> <<>>, handler |-> 0]

Desc(ty, c, f) == [handlerType |-> ty, coords |-> c, handler |-> f]

HandlerRegistered == "MAL handler already registered"
HandlerNotRegistered == "MAL handler not registered"
BadHandlerType == "Bad handler type"
BadPubSubStage == "Bad interaction stage for PubSub"

\* What the registered callbacks return to OnMessage, which returns it to
\* its caller: the callbacks of the model return no error.
HandlerReturns == {NoErr}

\* The URI of the HandlerContext and the URI of the peer that sends to it.
HctxUri == "hctx"
PeerUri == "peer"

\* A HandlerContext.register that replaces the descriptor it finds: the fault
\* C23 must detect.
hctxRegisterReplaces(h, ty, c, f) ==
  [err |-> NoErr, handlers |-> [h EXCEPT ![key(c)] = Desc(ty, c, f)]]

\* HandlerContext.register, on the map h: the error and the map after.
hctxRegister(h, ty, c, f) ==
  IF h[key(c)] # NoDesc
    THEN [err |-> HandlerRegistered, handlers |-> h]
    ELSE [err |-> NoErr, handlers |-> [h EXCEPT ![key(c)] = Desc(ty, c, f)]]

\* A getHandler that does not compare the handler type: the fault C24 must
\* detect.
getHandlerAnyType(h, ty, c) ==
  IF h[key(c)] # NoDesc
    THEN [handler |-> h[key(c)].handler, err |-> NoErr]
    ELSE [handler |-> 0, err |-> HandlerNotRegistered]

\* HandlerContext.getHandler, on the map h: the handler and the error.
getHandler(h, ty, c) ==
  IF h[key(c)] # NoDesc
    THEN IF h[key(c)].handlerType = ty
           THEN [handler |-> h[key(c)].handler, err |-> NoErr]
           ELSE [handler |-> 0, err |-> BadHandlerType]
    ELSE [handler |-> 0, err |-> HandlerNotRegistered]

\* The messages the Context delivers to the HandlerContext: of the six
\* interaction types and of one the switch of OnMessage does not know; for
\* PUBSUB of the five stages a broker is sent and of one it is not.
HTypes == Types \cup {"UNKNOWN"}

HStages(ty) ==
  IF ty = "PUBSUB"
    THEN {"PUBSUB_REGISTER", "PUBSUB_PUBLISH_REGISTER", "PUBSUB_PUBLISH",
          "PUBSUB_DEREGISTER", "PUBSUB_PUBLISH_DEREGISTER", "PUBSUB_NOTIFY"}
    ELSE {ty}

NoHMsg == [type |-> "none", stage |-> "none", coords |-> <<>>, tid |-> 0, from |-> "none"]

\* No transaction, and TransactionX{hctx.Ctx, hctx.Uri, msg.UriFrom,
\* msg.TransactionId, msg.ServiceArea, msg.AreaVersion, msg.Service,
\* msg.Operation} wrapped in the type k.
NoTransaction == [kind |-> "none", uri |-> "none", urifrom |-> "none", tid |-> 0, coords |-> <<>>]

TransactionX(k, msg) ==
  [kind |-> k, uri |-> HctxUri, urifrom |-> msg.from, tid |-> msg.tid, coords |-> msg.coords]

\* The transaction type of each interaction type but PUBSUB.
TransactionOf(ty) ==
  CASE ty = "SEND" -> "SendTransaction"
    [] ty = "SUBMIT" -> "SubmitTransaction"
    [] ty = "REQUEST" -> "RequestTransaction"
    [] ty = "INVOKE" -> "InvokeTransaction"
    [] OTHER -> "ProgressTransaction"

\* The outcome of a dispatch: the callback invoked (0: none), the transaction
\* passed to it and the error returned.
Dispatched(f, tx, err) == [invoked |-> f, tx |-> tx, err |-> err]

\* An OnMessage that makes a SubscriberTransaction for every PUBSUB stage it
\* does not know as a publisher's: the fault C25 must detect.
PubSubTransactionLax(msg, f, ret) ==
  IF msg.stage \in {"PUBSUB_PUBLISH_REGISTER", "PUBSUB_PUBLISH", "PUBSUB_PUBLISH_DEREGISTER"}
    THEN Dispatched(f, TransactionX("PublisherTransaction", msg), ret)
    ELSE Dispatched(f, TransactionX("SubscriberTransaction", msg), ret)

\* OnMessage, case MAL_INTERACTIONTYPE_PUBSUB, once the broker handler f is
\* found; ret is what the handler returns.
PubSubTransaction(msg, f, ret) ==
  IF msg.stage \in {"PUBSUB_PUBLISH_REGISTER", "PUBSUB_PUBLISH", "PUBSUB_PUBLISH_DEREGISTER"}
    THEN Dispatched(f, TransactionX("PublisherTransaction", msg), ret)
    ELSE IF msg.stage \in {"PUBSUB_REGISTER", "PUBSUB_DEREGISTER"}
           THEN Dispatched(f, TransactionX("SubscriberTransaction", msg), ret)
           ELSE Dispatched(0, NoTransaction, BadPubSubStage)

\* HandlerContext.OnMessage on the map h; ret is what the handler returns
\* when it is invoked.
Dispatch(h, msg, ret) ==
  IF msg.type \notin Types
    THEN Dispatched(0, NoTransaction, NoErr)
    ELSE LET g == getHandler(h, HandlerTypeOf(msg.type), msg.coords)
         IN IF g.err # NoErr
              THEN Dispatched(0, NoTransaction, g.err)
              ELSE IF msg.type = "PUBSUB"
                     THEN PubSubTransaction(msg, g.handler, ret)
                     ELSE Dispatched(g.handler, TransactionX(TransactionOf(msg.type), msg), ret)

\* A call on the HandlerContext and what came of it: the handler type, key and
\* callback of a registration, the map before it, or the message dispatched.
HEvent(act, ty, c, f, before, msg, d) ==
  [act |-> act, type |-> ty, coords |-> c, handler |-> f, before |-> before,
   msg |-> msg, invoked |-> d.invoked, tx |-> d.tx, err |-> d.err]

\* The keys that have a descriptor.
Registered(h) == {c \in Coords : h[key(c)] # NoDesc}

\* RegisterSendHandler .. RegisterBrokerHandler
RegisterHandler(ty, c, f) ==
  /\ LET r == hctxRegister(hctxHandlers, ty, c, f)
     IN /\ hctxHandlers' = r.handlers
        /\ hev' = HEvent("Register", ty, c, f, hctxHandlers[key(c)], NoHMsg,
                         Dispatched(0, NoTransaction, r.err))
  /\ UNCHANGED <<opvars, gvars, fvars, tvars>>

\* HandlerContext.OnMessage
HandlerOnMessage ==
  /\ \E ty \in HTypes, c \in Coords, t \in HTids, ret \in HandlerReturns :
       \E st \in HStages(ty) :
         LET msg == [type |-> ty, stage |-> st, coords |-> c, tid |-> t, from |-> PeerUri]
         IN hev' = HEvent("OnMessage", "none", <<>>, 0, NoDesc, msg,
                          Dispatch(hctxHandlers, msg, ret))
  /\ UNCHANGED <<opvars, gvars, fvars, tvars, hctxHandlers>>

\* HandlerContext.OnClose: the handlers are left as they are.
HandlerOnClose ==
  /\ hev' = HEvent("OnClose", "none", <<>>, 0, NoDesc, NoHMsg, Dispatched(0, NoTransaction, NoErr))
  /\ UNCHANGED <<opvars, gvars, fvars, tvars, hctxHandlers>>

\* NewHandlerContext
HInit ==
  /\ hctxHandlers = [c \in Coords |-> NoDesc]
  /\ hev = HEvent("New", "none", <<>>, 0, NoDesc, NoHMsg, Dispatched(0, NoTransaction, NoErr))

HNext ==
  \/ \E ty \in HandlerTypes, c \in HandlerKeys, f \in Callbacks : RegisterHandler(ty, c, f)
  \/ HandlerOnMessage
  \/ HandlerOnClose

\* ------------------------------------------------------------ TCP transport
\* Body lengths of the messages encoded: one and two significant bytes, on
\* both sides of 256 - FIXED_HEADER_LENGTH.
BodyLengths == {0, 1, 232, 233, 256, 489}

\* What the encoder may leave at the offsets of the body length.
Placeholders == {<<0, 0, 0, 0>>, <<255, 255, 255, 255>>}

\* Every byte of a frame other than the four of the body length.
Filler == 0

EncodeFailed == "encode failed"
WriteFailed == "write failed"
ReadFailed == "EOF"
DecodeFailed == "decode failed"
SendOnClosed == "panic: send on closed channel"
BadUri == "bad uri"
DialFailed == "dial failed"

\* A uint32 as its two 16-bit halves, and its value when that is below 2^31.
U32(hi, lo) == [hi |-> hi, lo |-> lo]
Small(u) == u.hi < 2^15
Value(u) == u.hi * (2^16) + u.lo

\* A frame: its length in bytes and its bytes at offsets 19..22.
NoFrame == [size |-> 0, len |-> <<>>]

\* transport.encode is not in the sources: a buffer that holds the fixed
\* header and the body, with anything at offsets 19..22.
encode(body, ph) == [size |-> FIXED_HEADER_LENGTH + body, len |-> ph]

write32LittleEndian(value) ==
  <<value % 256, (value \div (2^8)) % 256, (value \div (2^16)) % 256,
    (value \div (2^24)) % 256>>

write32(value) ==
  <<(value \div (2^24)) % 256, (value \div (2^16)) % 256, (value \div (2^8)) % 256,
    value % 256>>

\* TCPTransport.writeMessage on a connection that is open or not; encOk is
\* the outcome of encode. Returns the error and the frame put on the socket.
writeMessage(open, body, ph, encOk) ==
  IF ~encOk
    THEN [err |-> EncodeFailed, frame |-> NoFrame]
    ELSE LET buf == encode(body, ph)
             \* uint32(len(buf))-FIXED_HEADER_LENGTH: the buffer holds the fixed
             \* header and is shorter than 2^31 bytes, nothing wraps
             stamped == [buf EXCEPT !.len = write32(buf.size - FIXED_HEADER_LENGTH)]
         IN IF open
              THEN [err |-> NoErr, frame |-> stamped]
              ELSE [err |-> WriteFailed, frame |-> NoFrame]

\* Go's a | b on unsigned integers.
RECURSIVE BitOr(_, _)
BitOr(a, b) ==
  IF a = 0 THEN b
  ELSE IF b = 0 THEN a
  ELSE (IF (a % 2 = 1) \/ (b % 2 = 1) THEN 1 ELSE 0) + 2 * BitOr(a \div 2, b \div 2)

\* readMessage: length := FIXED_HEADER_LENGTH + uint32(buf[22]) | uint32(buf[21])<<8
\* | uint32(buf[20])<<16 | uint32(buf[19])<<24, where + and | have the same
\* precedence and associate to the left; b is the four bytes at 19..22. The
\* sum is below 2^9, so the low half is the | of the sum with buf[21]<<8 and
\* the high half is buf[19], buf[20].
readLength(b) ==
  U32(b[1] * (2^8) + b[2], BitOr(FIXED_HEADER_LENGTH + b[4], b[3] * (2^8)))

\* Number of bytes in the frames w.
RECURSIVE Bytes(_)
Bytes(w) == IF w = <<>> THEN 0 ELSE Head(w).size + Bytes(Tail(w))

\* The byte at position pos of the stream made of the frames w.
RECURSIVE ByteAt(_, _)
ByteAt(w, pos) ==
  IF pos < Head(w).size
    THEN IF pos \in VARIABLE_LENGTH_OFFSET .. (VARIABLE_LENGTH_OFFSET + 3)
           THEN Head(w).len[pos - VARIABLE_LENGTH_OFFSET + 1]
           ELSE Filler
    ELSE ByteAt(Tail(w), pos - Head(w).size)

\* The stream once the reader is at position off: the frames read to their
\* end are gone.
RECURSIVE Advance(_, _)
Advance(w, off) ==
  IF (w # <<>>) /\ (off >= Head(w).size)
    THEN Advance(Tail(w), off - Head(w).size)
    ELSE [wire |-> w, roff |-> off]

\* A step on the connection: the position it started at, the four bytes at
\* 19..22 written or read, the size of the frame written, the length the
\* reader computed, the four bytes the encoder had left, the error.
FEvent(act, at, hdr, size, length, ph, err) ==
  [act |-> act, at |-> at, hdr |-> hdr, size |-> size, length |-> length,
   ph |-> ph, err |-> err]

\* writeMessage on the connection.
WriteMessage ==
  /\ Len(wire) < MaxWire
  /\ \E body \in BodyLengths, ph \in Placeholders, encOk \in BOOLEAN :
       LET r == writeMessage(~weof, body, ph, encOk)
       IN /\ wire' = IF r.err = NoErr THEN Append(wire, r.frame) ELSE wire
          /\ fev' = FEvent("write", Bytes(wire), r.frame.len, r.frame.size, U32(0, 0), ph, r.err)
  /\ UNCHANGED <<opvars, gvars, hvars, tvars, roff, weof>>

\* The writing side closes the connection.
PeerCloses ==
  /\ ~weof
  /\ weof' = TRUE
  /\ fev' = FEvent("close", Bytes(wire), <<>>, 0, U32(0, 0), <<>>, NoErr)
  /\ UNCHANGED <<opvars, gvars, hvars, tvars, wire, roff>>

\* readMessage on the connection: the fixed header, the length, the rest of
\* the frame, decode. A Read that has nothing to return waits, and fails
\* once the connection is closed.
ReadMessage ==
  LET avail == Bytes(wire) - roff
      hdr == [i \in 1 .. 4 |-> ByteAt(wire, roff + VARIABLE_LENGTH_OFFSET + i - 1)]
      length == readLength(hdr)
  IN /\ IF avail < FIXED_HEADER_LENGTH
          THEN /\ weof
               /\ wire' = <<>>
               /\ roff' = 0
               /\ fev' = FEvent("read", roff, <<>>, 0, U32(0, 0), <<>>, ReadFailed)
          ELSE IF ~Small(length) \/ (avail < Value(length))
                 THEN /\ weof
                      /\ wire' = <<>>
                      /\ roff' = 0
                      /\ fev' = FEvent("read", roff, hdr, 0, length, <<>>, ReadFailed)
                 ELSE /\ wire' = Advance(wire, roff + Value(length)).wire
                      /\ roff' = Advance(wire, roff + Value(length)).roff
                      /\ \E decOk \in BOOLEAN :
                           fev' = FEvent("read", roff, hdr, 0, length, <<>>,
                                         IF decOk THEN NoErr ELSE DecodeFailed)
     /\ UNCHANGED <<opvars, gvars, hvars, tvars, weof>>

FInit ==
  /\ wire = <<>>
  /\ roff = 0
  /\ weof = FALSE
  /\ fev = FEvent("none", 0, <<>>, 0, U32(0, 0), <<>>, NoErr)

FNext ==
  \/ WriteMessage
  \/ PeerCloses
  \/ ReadMessage

\* ---------------------------------------------- TCP transport: the goroutines
Hosts == {"a", "b"}
ConnIds == 1 .. MaxDial

TEvent(act, host, cached, cnx, err) ==
  [act |-> act, host |-> host, cached |-> cached, cnx |-> cnx, err |-> err]

\* start: net.Listen, then the two goroutines.
Start ==
  /\ listen = "none"
  /\ ~tchClosed
  /\ \E ok \in BOOLEAN :
       IF ok
         THEN /\ running' = TRUE
              /\ listen' = "open"
              /\ acceptPc' = "accept"
              /\ outPc' = "recv"
              /\ tev' = TEvent("start", "none", FALSE, 0, NoErr)
         ELSE /\ tev' = TEvent("start", "none", FALSE, 0, "listen failed")
              /\ UNCHANGED <<running, listen, acceptPc, outPc>>
  /\ UNCHANGED <<opvars, gvars, hvars, fvars, tch, tchClosed, conns, cnxState,
                 inbound, txWait>>

\* Transmit: transport.ch <- msg. The send completes if the buffer has room,
\* panics if the channel is closed, and suspends the caller otherwise.
Transmit ==
  /\ ~txWait
  /\ IF tchClosed
       THEN /\ tev' = TEvent("transmit", "none", FALSE, 0, SendOnClosed)
            /\ UNCHANGED <<tch, txWait>>
       ELSE IF tch < TChanCap
              THEN /\ tch' = tch + 1
                   /\ tev' = TEvent("transmit", "none", FALSE, 0, NoErr)
                   /\ UNCHANGED txWait
              ELSE /\ txWait' = TRUE
                   /\ tev' = TEvent("transmit", "none", FALSE, 0, "suspended")
                   /\ UNCHANGED tch
  /\ UNCHANGED <<opvars, gvars, hvars, fvars, tchClosed, running, listen, conns,
                 cnxState, outPc, acceptPc, inbound>>

\* The suspended send completes once the buffer has room, or panics once the
\* channel is closed.
TransmitResume ==
  /\ txWait
  /\ (tch < TChanCap) \/ tchClosed
  /\ txWait' = FALSE
  /\ IF tchClosed
       THEN /\ tev' = TEvent("transmitted", "none", FALSE, 0, SendOnClosed)
            /\ UNCHANGED tch
       ELSE /\ tch' = tch + 1
            /\ tev' = TEvent("transmitted", "none", FALSE, 0, NoErr)
  /\ UNCHANGED <<opvars, gvars, hvars, fvars, tchClosed, running, listen, conns,
                 cnxState, outPc, acceptPc, inbound>>

\* The connections dialed so far.
Dialed == {c \in ConnIds : cnxState[c] # "none"}

\* transport.conns after handleOut has written to connection c of host to:
\* the entry is the one found, or the one dialed, whatever the write returned.
handleOutConns(to, c) ==
  IF conns[to] = 0 THEN [conns EXCEPT ![to] = c] ELSE conns

\* handleOut, one message: receive, url.Parse, the connection from the cache
\* or from net.Dial, writeMessage. The message's UriTo and body are looked at
\* here for the first time.
HandleOutMessage ==
  /\ outPc = "recv"
  /\ tch > 0
  /\ tch' = tch - 1
  /\ \E to \in Hosts \cup {BadUri} :
       IF to = BadUri
         THEN /\ tev' = TEvent("out", to, FALSE, 0, BadUri)
              /\ UNCHANGED <<conns, cnxState>>
         ELSE IF conns[to] # 0
                THEN \E body \in BodyLengths, ph \in Placeholders, encOk \in BOOLEAN :
                       LET r == writeMessage(cnxState[conns[to]] = "open", body, ph, encOk)
                       IN /\ conns' = handleOutConns(to, conns[to])
                          /\ tev' = TEvent("out", to, TRUE, conns[to], r.err)
                          /\ UNCHANGED cnxState
                ELSE \E ok \in BOOLEAN :
                       IF ok /\ (Dialed # ConnIds)
                         THEN LET c == CHOOSE i \in ConnIds \ Dialed :
                                         \A j \in ConnIds \ Dialed : i <= j
                              IN \E body \in BodyLengths, ph \in Placeholders, encOk \in BOOLEAN :
                                   LET r == writeMessage(TRUE, body, ph, encOk)
                                   IN /\ conns' = handleOutConns(to, c)
                                      /\ cnxState' = [cnxState EXCEPT ![c] = "open"]
                                      /\ tev' = TEvent("out", to, FALSE, c, r.err)
                         ELSE /\ tev' = TEvent("out", to, FALSE, 0, DialFailed)
                              /\ UNCHANGED <<conns, cnxState>>
  /\ UNCHANGED <<opvars, gvars, hvars, fvars, tchClosed, running, listen, outPc,
                 acceptPc, inbound, txWait>>

\* handleOut, the channel closed and empty: transport.ends <- true, a send on
\* an unbuffered channel.
HandleOutEnds ==
  /\ outPc = "recv"
  /\ tch = 0
  /\ tchClosed
  /\ outPc' = "ends"
  /\ tev' = TEvent("ends", "none", FALSE, 0, NoErr)
  /\ UNCHANGED <<opvars, gvars, hvars, fvars, tch, tchClosed, running, listen,
                 conns, cnxState, acceptPc, inbound, txWait>>

\* Some goroutine receives from transport.ends: handleOut is back at the top
\* of its loop.
EndsReceived ==
  /\ outPc = "ends"
  /\ outPc' = "recv"
  /\ tev' = TEvent("ended", "none", FALSE, 0, NoErr)
  /\ UNCHANGED <<opvars, gvars, hvars, fvars, tch, tchClosed, running, listen,
                 conns, cnxState, acceptPc, inbound, txWait>>

\* The connections handleConn can accept.
InIds == 1 .. MaxAccept

\* handleConn: Accept returns a connection, go handleIn.
Accept ==
  /\ acceptPc = "accept"
  /\ listen = "open"
  /\ \E i \in InIds :
       /\ inbound[i].cnx = "none"
       /\ \A j \in InIds : (j < i) => (inbound[j].cnx # "none")
       /\ inbound' = [inbound EXCEPT ![i] = [cnx |-> "open", at |-> "check"]]
  /\ tev' = TEvent("accept", "none", FALSE, 0, NoErr)
  /\ UNCHANGED <<opvars, gvars, hvars, fvars, tch, tchClosed, running, listen,
                 conns, cnxState, outPc, acceptPc, txWait>>

\* handleConn: Accept returns an error, break.
AcceptFails ==
  /\ acceptPc = "accept"
  /\ listen = "closed"
  /\ acceptPc' = "exited"
  /\ tev' = TEvent("accept", "none", FALSE, 0, "use of closed network connection")
  /\ UNCHANGED <<opvars, gvars, hvars, fvars, tch, tchClosed, running, listen,
                 conns, cnxState, outPc, inbound, txWait>>

\* handleIn of connection i at the top of its loop: for transport.running.
HandleInCheck(i) ==
  /\ inbound[i].at = "check"
  /\ inbound' = [inbound EXCEPT ![i].at = IF running THEN "read" ELSE "exited"]
  /\ tev' = TEvent("loop", "none", FALSE, i, NoErr)
  /\ UNCHANGED <<opvars, gvars, hvars, fvars, tch, tchClosed, running, listen,
                 conns, cnxState, outPc, acceptPc, txWait>>

\* handleIn of connection i in readMessage: a message arrives and is handed
\* to ctx.Receive, or decode fails, or the Read fails because the peer has
\* closed the connection; in each case the loop goes on (continue). A Read
\* with nothing to return waits.
HandleInRead(i) ==
  /\ inbound[i].at = "read"
  /\ inbound' = [inbound EXCEPT ![i].at = "check"]
  /\ IF inbound[i].cnx = "open"
       THEN \E err \in {NoErr, DecodeFailed} : tev' = TEvent("in", "none", FALSE, i, err)
       ELSE tev' = TEvent("in", "none", FALSE, i, ReadFailed)
  /\ UNCHANGED <<opvars, gvars, hvars, fvars, tch, tchClosed, running, listen,
                 conns, cnxState, outPc, acceptPc, txWait>>

\* The peer closes an accepted connection: reads on it fail from now on.
InboundPeerCloses(i) ==
  /\ inbound[i].cnx = "open"
  /\ inbound' = [inbound EXCEPT ![i].cnx = "dead"]
  /\ tev' = TEvent("eof", "none", FALSE, i, NoErr)
  /\ UNCHANGED <<opvars, gvars, hvars, fvars, tch, tchClosed, running, listen,
                 conns, cnxState, outPc, acceptPc, txWait>>

\* The peer closes or resets a connection: writes on it fail from now on.
PeerReset(c) ==
  /\ cnxState[c] = "open"
  /\ cnxState' = [cnxState EXCEPT ![c] = "broken"]
  /\ tev' = TEvent("reset", "none", FALSE, c, NoErr)
  /\ UNCHANGED <<opvars, gvars, hvars, fvars, tch, tchClosed, running, listen,
                 conns, outPc, acceptPc, inbound, txWait>>

\* TCPTransport.Close
TClose ==
  /\ listen = "open"
  /\ ~tchClosed
  /\ running' = FALSE
  /\ tchClosed' = TRUE
  /\ listen' = "closed"
  /\ cnxState' = [c \in ConnIds |->
                    IF \E h \in Hosts : conns[h] = c THEN "closed" ELSE cnxState[c]]
  /\ tev' = TEvent("close", "none", FALSE, 0, NoErr)
  /\ UNCHANGED <<opvars, gvars, hvars, fvars, tch, conns, outPc, acceptPc,
                 inbound, txWait>>

\* init
TaskInit ==
  /\ tch = 0
  /\ tchClosed = FALSE
  /\ running = FALSE
  /\ listen = "none"
  /\ conns = [h \in Hosts |-> 0]
  /\ cnxState = [c \in ConnIds |-> "none"]
  /\ outPc = "none"
  /\ acceptPc = "none"
  /\ inbound = [i \in InIds |-> [cnx |-> "none", at |-> "none"]]
  /\ txWait = FALSE
  /\ tev = TEvent("init", "none", FALSE, 0, NoErr)

TInit == FInit /\ TaskInit

TNext ==
  \/ Start
  \/ Transmit
  \/ TransmitResume
  \/ HandleOutMessage
  \/ HandleOutEnds
  \/ EndsReceived
  \/ Accept
  \/ AcceptFails
  \/ \E i \in InIds : HandleInCheck(i)
  \/ \E i \in InIds : HandleInRead(i)
  \/ \E i \in InIds : InboundPeerCloses(i)
  \/ \E c \in ConnIds : PeerReset(c)
  \/ TClose

\* ------------------------------------------------------------ specification
Init ==
  /\ txcounter = 0
  /\ issued = {}
  /\ handlers = [t \in Tids |-> 0]
  /\ ctxClosed = FALSE
  /\ kind = [o \in Ops |-> "none"]
  /\ tid = [o \in Ops |-> 0]
  /\ ch = [o \in Ops |-> "nil"]
  /\ chClosed = [o \in Ops |-> FALSE]
  /\ queue = [o \in Ops |-> <<>>]
  /\ status = [o \in Ops |-> _CREATED]
  /\ response = [o \in Ops |-> NoMsg]
  /\ pc = [o \in Ops |-> Idle]
  /\ ev = Event("Init", "new", 0, NoErr, NoMsg, <<>>)
  /\ th = [t \in Threads |-> IdleThread(<<>>)]
  /\ fatal = FALSE
  /\ rcv = NoDelivery
  /\ sock = <<>>
  /\ HInit
  /\ TInit

Calls ==
  \/ \E o \in Ops, k \in Kinds : NewOperation(o, k) /\ UNCHANGED xvars
  \/ \E o \in Ops : Send(o) /\ UNCHANGED xvars
  \/ \E o \in Ops : Submit(o) /\ UNCHANGED xvars
  \/ \E o \in Ops : Request(o) /\ UNCHANGED xvars
  \/ \E o \in Ops : Invoke(o) /\ UNCHANGED xvars
  \/ \E o \in Ops : InvokeGetResponse(o) /\ UNCHANGED xvars
  \/ \E o \in Ops : Progress(o) /\ UNCHANGED xvars
  \/ \E o \in Ops : GetUpdate(o) /\ UNCHANGED xvars
  \/ \E o \in Ops : ProgressGetResponse(o) /\ UNCHANGED xvars
  \/ \E o \in Ops : SubscriberRegister(o) /\ UNCHANGED xvars
  \/ \E o \in Ops : GetNotify(o) /\ UNCHANGED xvars
  \/ \E o \in Ops : SubscriberDeregister(o) /\ UNCHANGED xvars
  \/ \E o \in Ops : PublisherRegister(o) /\ UNCHANGED xvars
  \/ \E o \in Ops : Publish(o) /\ UNCHANGED xvars
  \/ \E o \in Ops : PublisherDeregister(o) /\ UNCHANGED xvars
  \/ \E o \in Ops : EvalCh(o) /\ UNCHANGED xvars
  \/ \E o \in Ops : Recv(o) /\ UNCHANGED xvars
  \/ \E o \in Ops : Close(o) /\ UNCHANGED xvars
  \/ \E o \in Ops : Reset(o) /\ UNCHANGED xvars
  \/ OnClose /\ UNCHANGED xvars

Next ==
  \/ Calls
  \/ OnMessage /\ UNCHANGED xvars

Spec == Init /\ [][Next]_vars

\* The same with the transaction id of every queued message on record.
NextTid ==
  \/ Calls
  \/ OnMessageTid /\ UNCHANGED xvars

SpecTid == Init /\ [][NextTid]_vars

\* The scheduler runs a goroutine that can run: a call whose receive can
\* complete does complete.
Fairness ==
  \A o \in Ops : /\ WF_vars(EvalCh(o) /\ UNCHANGED xvars)
                 /\ WF_vars(Recv(o) /\ UNCHANGED xvars)

SpecFair == Spec /\ Fairness

\* The HandlerContext alone.
SpecHandler == Init /\ [][HNext]_vars

\* One TCP connection: the frames written to it and read from it.
SpecFrame == Init /\ [][FNext]_vars

\* The TCP transport and its goroutines.
SpecTcp == Init /\ [][TNext]_vars

\* The scheduler runs a goroutine that can run: handleOut and handleConn take
\* their next step, a suspended send completes when it can, and whoever waits
\* on transport.ends receives.
TFairness ==
  /\ WF_vars(HandleOutMessage)
  /\ WF_vars(HandleOutEnds)
  /\ WF_vars(EndsReceived)
  /\ WF_vars(AcceptFails)
  /\ WF_vars(TransmitResume)
  /\ \A i \in InIds : WF_vars(HandleInCheck(i)) /\ WF_vars(HandleInRead(i))

SpecTcpFair == SpecTcp /\ TFairness

\* ------------------------------------------- goroutines, statement by statement
\* The same program with several operations of one OperationContext, called
\* from several application goroutines, and the calls of Submit and Request
\* cut at every statement that reads or writes state shared between
\* goroutines: op.status, the handlers map (which the code accesses without a
\* lock), the channel.  The atomic add of TransactionId is one step, and so
\* are the constructors, Reset and OnMessage.  Close and OnClose are not part
\* of this view, and ev is not used in it.

\* The operations and the transaction ids of this view: every operation can be
\* constructed and one of them reset.
GOps == {1, 2}

GTids == 1 .. (MaxTid + 1)

\* The constructor the program calls for operation o in this view:
\* NewSubmitOperation for the first, NewRequestOperation for the others.
\* Submit and Request have the same statements from the status check to the
\* return.
GKind(o) == IF o = 1 THEN "Submit" ELSE "Request"

\* The message the peer sends to operation o in this view: the reply its
\* pattern waits for, without the error flag.
GReplyTo(o) ==
  [stage |-> IF kind[o] = "Submit" THEN "SUBMIT_ACK" ELSE "REQUEST_RESPONSE",
   err |-> FALSE, body |-> 0, tid |-> 0]

\* What the program shares besides the map, the counter and the operations'
\* fields stays as it is in every step of this view.
GFrame == UNCHANGED <<chClosed, response, pc, ev, rcv, sock, hvars, fvars, tvars>>

\* Goroutine t is between the statements of register or of deregister.
InRegister(t) == th[t].at \in {"registering", "deleting"}

MapUsers == {t \in Threads : InRegister(t)}

MapBusyFor(t) == MapUsers \ {t} # {}

\* The outcomes of a map write: it happens, or, when another goroutine is
\* using the map, the runtime may stop the program ("concurrent map writes").
WriteOutcomes(t) == IF MapBusyFor(t) THEN {"written", "fatal"} ELSE {"written"}

\* A call of goroutine t returns.
GReturn(t) == th' = [th EXCEPT ![t] = IdleThread(@.ids)]

\* NewSubmitOperation, NewRequestOperation, called by goroutine t.
GNewOperation(t, o) ==
  /\ ~fatal
  /\ th[t].at = "idle"
  /\ kind[o] = "none"
  /\ txcounter < MaxTid + 1
  /\ txcounter' = TransactionId
  /\ issued' = issued \cup {TransactionId}
  /\ kind' = [kind EXCEPT ![o] = GKind(o)]
  /\ tid' = [tid EXCEPT ![o] = TransactionId]
  /\ ch' = [ch EXCEPT ![o] = "chan"]
  /\ status' = [status EXCEPT ![o] = _CREATED]
  /\ th' = [th EXCEPT ![t].ids = Append(@, TransactionId)]
  /\ UNCHANGED <<handlers, ctxClosed, queue, fatal>>
  /\ GFrame

\* A Reset that gives the operation the first transaction id again instead of
\* a new one: the fault C17 must detect.
GResetFirstTid(t, o) ==
  /\ ~fatal
  /\ th[t].at = "idle"
  /\ kind[o] # "none"
  /\ status[o] = _FINAL
  /\ tid' = [tid EXCEPT ![o] = 1]
  /\ status' = [status EXCEPT ![o] = _CREATED]
  /\ UNCHANGED <<txcounter, issued, th, handlers, ctxClosed, kind, ch, queue, fatal,
                 chClosed, response, pc, ev, rcv, sock, hvars, fvars, tvars>>

\* OperationX.Reset, called by goroutine t.
GReset(t, o) ==
  /\ ~fatal
  /\ th[t].at = "idle"
  /\ kind[o] # "none"
  /\ IF status[o] # _FINAL
       THEN UNCHANGED <<txcounter, issued, tid, status, th>>
       ELSE /\ txcounter < MaxTid + 1
            /\ txcounter' = TransactionId
            /\ issued' = issued \cup {TransactionId}
            /\ tid' = [tid EXCEPT ![o] = TransactionId]
            /\ status' = [status EXCEPT ![o] = _CREATED]
            /\ th' = [th EXCEPT ![t].ids = Append(@, TransactionId)]
  /\ UNCHANGED <<handlers, ctxClosed, kind, ch, queue, fatal>>
  /\ GFrame

\* Submit, Request: "if op.status != _CREATED".
GCheckStatus(t, o) ==
  /\ ~fatal
  /\ th[t].at = "idle"
  /\ kind[o] # "none"
  /\ IF status[o] # _CREATED
       THEN UNCHANGED th
       ELSE th' = [th EXCEPT ![t].at = "checked", ![t].op = o]
  /\ UNCHANGED <<txcounter, issued, handlers, ctxClosed, kind, tid, ch, queue,
                 status, fatal>>
  /\ GFrame

\* Submit, Request: "op.status = _INITIATED", and the argument op.tid of the
\* call of register.
GInitiate(t) ==
  /\ ~fatal
  /\ th[t].at = "checked"
  /\ status' = [status EXCEPT ![th[t].op] = _INITIATED]
  /\ th' = [th EXCEPT ![t].at = "register", ![t].tid = tid[th[t].op]]
  /\ UNCHANGED <<txcounter, issued, handlers, ctxClosed, kind, tid, ch, queue,
                 fatal>>
  /\ GFrame

\* register: "old := ictx.handlers[tid]".
GRegisterRead(t) ==
  /\ ~fatal
  /\ th[t].at = "register"
  /\ th' = [th EXCEPT ![t].at = "registering", ![t].old = handlers[th[t].tid]]
  /\ UNCHANGED <<txcounter, issued, handlers, ctxClosed, kind, tid, ch, queue,
                 status, fatal>>
  /\ GFrame

\* register: "if old != nil { return error }; ictx.handlers[tid] = handler";
\* then, back in Submit or Request, "err = op.ictx.Ctx.Send(msg)", which
\* touches nothing the goroutines share.
GRegisterWrite(t) ==
  /\ ~fatal
  /\ th[t].at = "registering"
  /\ IF th[t].old # 0
       THEN /\ th' = [th EXCEPT ![t].at = "finalize", ![t].old = 0,
                                 ![t].err = AlreadyRegistered]
            /\ UNCHANGED <<handlers, fatal>>
       ELSE \E w \in WriteOutcomes(t) :
              IF w = "fatal"
                THEN /\ fatal' = TRUE
                     /\ UNCHANGED <<handlers, th>>
                ELSE /\ handlers' = [handlers EXCEPT ![th[t].tid] = th[t].op]
                     /\ \E sent \in SendOutcomes :
                          th' = IF sent
                                  THEN [th EXCEPT ![t].at = "wait", ![t].old = 0]
                                  ELSE [th EXCEPT ![t].at = "finalize", ![t].old = 0,
                                                  ![t].err = SendFailed]
                     /\ UNCHANGED fatal
  /\ UNCHANGED <<txcounter, issued, ctxClosed, kind, tid, ch, queue, status>>
  /\ GFrame

\* Submit, Request: "msg, more := <-op.ch" and the tests of the message.
GReceive(t) ==
  /\ ~fatal
  /\ th[t].at = "wait"
  /\ queue[th[t].op] # <<>>
  /\ LET o == th[t].op
         r == Reply(kind[o], o, Head(queue[o]))
     IN /\ queue' = [queue EXCEPT ![o] = Tail(@)]
        /\ th' = [th EXCEPT ![t].at = "finalize", ![t].err = r.err, ![t].msg = r.msg]
  /\ UNCHANGED <<txcounter, issued, handlers, ctxClosed, kind, tid, ch, status,
                 fatal>>
  /\ GFrame

\* finalize: "op.status = _FINAL", and, op.ch not being nil, the argument
\* op.tid of the call of deregister.
GFinalize(t) ==
  /\ ~fatal
  /\ th[t].at = "finalize"
  /\ status' = [status EXCEPT ![th[t].op] = _FINAL]
  /\ IF ch[th[t].op] # "nil"
       THEN /\ th' = [th EXCEPT ![t].at = "deregister", ![t].tid = tid[th[t].op]]
       ELSE GReturn(t)
  /\ UNCHANGED <<txcounter, issued, handlers, ctxClosed, kind, tid, ch, queue,
                 fatal>>
  /\ GFrame

\* deregister: "if ictx.handlers[tid] == nil { return error }"; finalize
\* ignores the error and the call returns.
GDeregisterRead(t) ==
  /\ ~fatal
  /\ th[t].at = "deregister"
  /\ IF handlers[th[t].tid] = 0
       THEN GReturn(t)
       ELSE /\ th' = [th EXCEPT ![t].at = "deleting"]
  /\ UNCHANGED <<txcounter, issued, handlers, ctxClosed, kind, tid, ch, queue,
                 status, fatal>>
  /\ GFrame

\* deregister: "delete(ictx.handlers, tid)"; the call returns.
GDelete(t) ==
  /\ ~fatal
  /\ th[t].at = "deleting"
  /\ \E w \in WriteOutcomes(t) :
       IF w = "fatal"
         THEN /\ fatal' = TRUE
              /\ UNCHANGED <<handlers, th>>
         ELSE /\ handlers' = [handlers EXCEPT ![th[t].tid] = 0]
              /\ GReturn(t)
              /\ UNCHANGED fatal
  /\ UNCHANGED <<txcounter, issued, ctxClosed, kind, tid, ch, queue, status>>
  /\ GFrame

\* OnMessage: "to, ok := ictx.handlers[msg.TransactionId]" and
\* "to.onMessage(msg)", of a message of the operation's pattern and service.
\* A message that cannot be routed is dropped.  The peer sends a reply to an
\* operation when the operation has taken the one before.
GOnMessage ==
  /\ ~fatal
  /\ ~ctxClosed
  /\ \E t \in GTids :
       LET o == handlers[t]
       IN IF o = 0
            THEN UNCHANGED queue
            ELSE /\ Accepts(o, TypeOf(kind[o]), OpCoords)
                 /\ Len(queue[o]) < ChanCap
                 /\ queue[o] = <<>>
                 /\ queue' = [queue EXCEPT ![o] = Append(@, GReplyTo(o))]
  /\ UNCHANGED <<txcounter, issued, handlers, ctxClosed, kind, tid, ch, status,
                 th, fatal>>
  /\ GFrame

GInit ==
  /\ txcounter = 0
  /\ issued = {}
  /\ handlers = [t \in GTids |-> 0]
  /\ ctxClosed = FALSE
  /\ kind = [o \in GOps |-> "none"]
  /\ tid = [o \in GOps |-> 0]
  /\ ch = [o \in GOps |-> "nil"]
  /\ chClosed = [o \in GOps |-> FALSE]
  /\ queue = [o \in GOps |-> <<>>]
  /\ status = [o \in GOps |-> _CREATED]
  /\ response = [o \in GOps |-> NoMsg]
  /\ pc = [o \in GOps |-> Idle]
  /\ ev = Event("Init", "new", 0, NoErr, NoMsg, <<>>)
  /\ th = [t \in Threads |-> IdleThread(<<>>)]
  /\ fatal = FALSE
  /\ rcv = NoDelivery
  /\ sock = <<>>
  /\ HInit
  /\ TInit

GNext ==
  \/ \E t \in Threads, o \in GOps : GNewOperation(t, o)
  \/ \E t \in Threads, o \in GOps : GReset(t, o)
  \/ \E t \in Threads, o \in GOps : GCheckStatus(t, o)
  \/ \E t \in Threads : GInitiate(t)
  \/ \E t \in Threads : GRegisterRead(t)
  \/ \E t \in Threads : GRegisterWrite(t)
  \/ \E t \in Threads : GReceive(t)
  \/ \E t \in Threads : GFinalize(t)
  \/ \E t \in Threads : GDeregisterRead(t)
  \/ \E t \in Threads : GDelete(t)
  \/ GOnMessage

SpecGo == GInit /\ [][GNext]_vars

\* ------------------------------------------------------ the delivery goroutine
\* The goroutine that reads one inbound connection hands each message to the
\* Context, which calls OnMessage of the endpoint, which calls onMessage of the
\* operation, which sends on the operation's channel: one call inside the
\* other, on the reading goroutine.  Here that goroutine is taken statement by
\* statement, next to the application goroutines that read the queues of two
\* SubscriberOperations and close them.
DOps == {1, 2}

\* The transaction ids of the inbound messages: those of the two operations
\* and one that has no entry in the map.
DTids == {1, 2, 3}

\* The NOTIFY the peer sends under transaction id t.
Notify(t) == [stage |-> "PUBSUB_NOTIFY", err |-> FALSE, body |-> 0, tid |-> t]

\* What the steps of this view leave alone.
DFrame == UNCHANGED <<txcounter, issued, ctxClosed, kind, tid, response, pc, ev,
                      hvars, fvars, tvars>>

\* The peer sends a message under transaction id t on the connection.
PeerSends(t) ==
  /\ ~fatal
  /\ Len(sock) < MaxInbox
  /\ sock' = Append(sock, t)
  /\ UNCHANGED <<handlers, ch, chClosed, queue, status, th, fatal, rcv>>
  /\ DFrame

\* Context.Receive, called by handleIn with the message it has read: the
\* endpoint's OnMessage is called on the calling goroutine.
ContextReceive(t) == [at |-> "onMessage", tid |-> t, op |-> handlers[t]]

\* handleIn reads the next message and OperationContext.OnMessage looks its
\* transaction id up: "to, ok := ictx.handlers[msg.TransactionId]".  Without
\* an entry the message is logged and the goroutine goes back to reading.
OnMessageLookup ==
  /\ ~fatal
  /\ rcv.at = "read"
  /\ sock # <<>>
  /\ sock' = Tail(sock)
  /\ rcv' = IF handlers[Head(sock)] = 0
              THEN [at |-> "read", tid |-> Head(sock), op |-> 0]
              ELSE ContextReceive(Head(sock))
  /\ UNCHANGED <<handlers, ch, chClosed, queue, status, th, fatal>>
  /\ DFrame

\* SubscriberOperationX.onMessage: the operand op.ch of "op.ch <- msg" is
\* evaluated.  A send on a nil channel blocks for ever.
onMessageEvalCh ==
  /\ ~fatal
  /\ rcv.at = "onMessage"
  /\ rcv' = [rcv EXCEPT !.at = IF ch[rcv.op] = "nil" THEN "nilchan" ELSE "send"]
  /\ UNCHANGED <<handlers, ch, chClosed, queue, status, th, fatal, sock>>
  /\ DFrame

\* The send completes when the buffer has room; until then the goroutine is
\* suspended in it.  On a closed channel the send panics, also when the
\* channel is closed while the goroutine is suspended.
onMessageSend ==
  /\ ~fatal
  /\ rcv.at = "send"
  /\ IF chClosed[rcv.op]
       THEN /\ fatal' = TRUE
            /\ rcv' = [rcv EXCEPT !.at = "panic"]
            /\ UNCHANGED queue
       ELSE /\ Len(queue[rcv.op]) < ChanCap
            /\ queue' = [queue EXCEPT ![rcv.op] = Append(@, Notify(rcv.tid))]
            /\ rcv' = [rcv EXCEPT !.at = "read"]
            /\ UNCHANGED fatal
  /\ UNCHANGED <<handlers, ch, chClosed, status, th, sock>>
  /\ DFrame

\* SubscriberOperationX.GetNotify, called by the goroutine that owns o, when
\* a NOTIFY is in the queue: the call returns it.
GetNotifyReads(o) ==
  /\ ~fatal
  /\ th[o].at = "idle"
  /\ status[o] = _REGISTERED
  /\ queue[o] # <<>>
  /\ queue' = [queue EXCEPT ![o] = Tail(@)]
  /\ UNCHANGED <<handlers, ch, chClosed, status, th, fatal, rcv, sock>>
  /\ DFrame

\* OperationX.Close, called by the goroutine that owns o, up to the
\* deregistration: the status test, "op.status = _CLOSED", "if op.ch != nil"
\* and "op.ictx.deregister(op.tid)".
CloseDeregisters(o) ==
  /\ ~fatal
  /\ th[o].at = "idle"
  /\ status[o] # _CLOSED
  /\ status' = [status EXCEPT ![o] = _CLOSED]
  /\ IF ch[o] = "nil"
       THEN UNCHANGED <<handlers, th>>
       ELSE /\ handlers' = deregister(handlers, tid[o]).handlers
            /\ th' = [th EXCEPT ![o].at = "closing", ![o].op = o]
  /\ UNCHANGED <<ch, chClosed, queue, fatal, rcv, sock>>
  /\ DFrame

\* "close(op.ch)"
CloseClosesChannel(o) ==
  /\ ~fatal
  /\ th[o].at = "closing"
  /\ chClosed' = [chClosed EXCEPT ![o] = TRUE]
  /\ th' = [th EXCEPT ![o].at = "closed"]
  /\ UNCHANGED <<handlers, ch, queue, status, fatal, rcv, sock>>
  /\ DFrame

\* "op.ch = nil" and the return
CloseDropsChannel(o) ==
  /\ ~fatal
  /\ th[o].at = "closed"
  /\ ch' = [ch EXCEPT ![o] = "nil"]
  /\ th' = [th EXCEPT ![o] = IdleThread(@.ids)]
  /\ UNCHANGED <<handlers, chClosed, queue, status, fatal, rcv, sock>>
  /\ DFrame

\* Two SubscriberOperations, registered by their goroutines and acknowledged
\* by the broker, with nothing received yet.
DInit ==
  /\ txcounter = 2
  /\ issued = {1, 2}
  /\ handlers = [t \in DTids |-> IF t \in DOps THEN t ELSE 0]
  /\ ctxClosed = FALSE
  /\ kind = [o \in DOps |-> "Subscriber"]
  /\ tid = [o \in DOps |-> o]
  /\ ch = [o \in DOps |-> "chan"]
  /\ chClosed = [o \in DOps |-> FALSE]
  /\ queue = [o \in DOps |-> <<>>]
  /\ status = [o \in DOps |-> _REGISTERED]
  /\ response = [o \in DOps |-> NoMsg]
  /\ pc = [o \in DOps |-> Idle]
  /\ ev = Event("Init", "new", 0, NoErr, NoMsg, <<>>)
  /\ th = [t \in DOps |-> IdleThread(<<t>>)]
  /\ fatal = FALSE
  /\ rcv = NoDelivery
  /\ sock = <<>>
  /\ HInit
  /\ TInit

\* The peer, the delivering goroutine and the readers.
QNext ==
  \/ \E t \in DTids : PeerSends(t)
  \/ OnMessageLookup
  \/ onMessageEvalCh
  \/ onMessageSend
  \/ \E o \in DOps : GetNotifyReads(o)

DNext ==
  \/ QNext
  \/ \E o \in DOps : CloseDeregisters(o)
  \/ \E o \in DOps : CloseClosesChannel(o)
  \/ \E o \in DOps : CloseDropsChannel(o)

SpecDeliver == DInit /\ [][DNext]_vars

\* The scheduler runs the delivering goroutine whenever it can run, and the
\* goroutine that owns operation 2 reads its queue whenever it holds a
\* message.  Nothing is assumed of the goroutine that owns operation 1.
DFairness ==
  /\ WF_vars(OnMessageLookup)
  /\ WF_vars(onMessageEvalCh)
  /\ WF_vars(onMessageSend)
  /\ WF_vars(GetNotifyReads(2))

\* The same without Close: no operation ends.
SpecDeliverFair == DInit /\ [][QNext]_vars /\ DFairness

\* ------------------------------------------------------------------ claims
\* The methods that wait for a reply, and the stages each wait takes for legal.
WaitingMethods ==
  {"Submit", "Request", "Invoke", "InvokeGetResponse", "Progress", "GetUpdate",
   "ProgressGetResponse", "SubscriberRegister", "GetNotify", "SubscriberDeregister",
   "PublisherRegister", "PublisherDeregister"}

LegalStages(m) ==
  CASE m = "Submit" -> {"SUBMIT_ACK"}
    [] m = "Request" -> {"REQUEST_RESPONSE"}
    [] m = "Invoke" -> {"INVOKE_ACK"}
    [] m = "InvokeGetResponse" -> {"INVOKE_RESPONSE"}
    [] m = "Progress" -> {"PROGRESS_ACK"}
    [] m = "GetUpdate" -> {"PROGRESS_UPDATE", "PROGRESS_RESPONSE"}
    [] m = "ProgressGetResponse" -> {"PROGRESS_RESPONSE"}
    [] m = "SubscriberRegister" -> {"PUBSUB_REGISTER_ACK"}
    [] m = "GetNotify" -> {"PUBSUB_NOTIFY"}
    [] m = "SubscriberDeregister" -> {"PUBSUB_NOTIFY", "PUBSUB_DEREGISTER_ACK"}
    [] m = "PublisherRegister" -> {"PUBSUB_PUBLISH_REGISTER_ACK"}
    [] m = "PublisherDeregister" -> {"PUBSUB_PUBLISH_DEREGISTER_ACK"}
    [] OTHER -> {}

\* The step completes the receive of the call parked on o's queue.
RecvStep(o) == (pc[o].at = "parked") /\ (pc'[o] # pc[o])

\* The step completes that receive with a message.
Dequeues(o) == RecvStep(o) /\ (queue[o] # <<>>)

\* The step is the call of method m on o by o's calling goroutine.
CallStep(o, m) == (pc[o] = Idle) /\ (ev'.act = m) /\ (ev'.op = o)

\* Nothing of the operations or of the OperationContext changes.
NothingChanges ==
  UNCHANGED <<txcounter, issued, handlers, ctxClosed, kind, tid, ch, chClosed, queue,
              status, response, pc>>

\* C1: whenever a waiting call (of any pattern) dequeues a message whose stage
\* is not legal for that wait, the call returns "Bad return message" with no
\* message, the operation is FINAL and its transaction id has no entry in the
\* handlers map.
C1_BadStageFinalizes ==
  [][\A o \in Ops :
       (Dequeues(o) /\ (Head(queue[o]).stage \notin LegalStages(pc[o].m)))
         => /\ ev'.act = pc[o].m
            /\ ev'.ph = "return"
            /\ ev'.err = BadStage
            /\ ev'.msg = NoMsg
            /\ pc'[o] = Idle
            /\ status'[o] = _FINAL
            /\ handlers'[tid[o]] = 0
            /\ tid'[o] = tid[o]]_vars

C1_Witness ==
  /\ ev.act = "GetUpdate"
  /\ ev.ph = "return"
  /\ ev.err = BadStage
  /\ status[ev.op] = _FINAL
  /\ handlers[tid[ev.op]] = 0

\* The statuses in which a method passes its status check.
LegalStatuses(m) ==
  CASE m \in {"Send", "Submit", "Request", "Invoke", "Progress", "SubscriberRegister",
              "PublisherRegister"} -> {_CREATED}
    [] m \in {"Publish", "SubscriberDeregister", "PublisherDeregister"} -> {_REGISTERED}
    [] m = "GetUpdate" -> {_ACKNOWLEDGED, _PROGRESSING}
    [] m = "GetNotify" -> {_REGISTERED, _REREGISTER_INITIATED, _DEREGISTER_INITIATED}
    [] OTHER -> {}

StatusCheckedMethods ==
  {"Send", "Submit", "Request", "Invoke", "Progress", "SubscriberRegister",
   "PublisherRegister", "Publish", "SubscriberDeregister", "PublisherDeregister",
   "GetUpdate", "GetNotify"}

\* C2: a method called in a status that is not legal for it returns "Bad
\* operation status", emits nothing, and changes neither the operation (status,
\* transaction id, queue) nor the handlers map.
C2_BadStatusNoEffect ==
  [][\A o \in Ops : \A m \in StatusCheckedMethods :
       (CallStep(o, m) /\ (status[o] \notin LegalStatuses(m)))
         => /\ ev' = Event(m, "return", o, BadStatus, NoMsg, <<>>)
            /\ NothingChanges]_vars

C2_Witness ==
  /\ ev.act = "Publish"
  /\ ev.ph = "return"
  /\ ev.err = BadStatus
  /\ status[ev.op] = _CREATED

\* C3: if Close runs on an operation while a call is suspended on its (empty)
\* inbound queue, that call eventually returns "Operation ends".
C3_CloseWakesWaiter ==
  \A o \in Ops :
    ((ev.act = "Close") /\ (ev.op = o) /\ (pc[o].at = "parked") /\ (queue[o] = <<>>))
      ~> ((pc[o] = Idle) /\ (ev.op = o) /\ (ev.act \in WaitingMethods)
            /\ (ev.ph = "return") /\ (ev.err = OperationEnds))

C3_Witness ==
  /\ ev.act \in WaitingMethods
  /\ ev.ph = "return"
  /\ ev.err = OperationEnds
  /\ ev.was = _CLOSED
  /\ ev.got = NoMsg
  /\ pc[ev.op] = Idle

\* C4: when OperationContext.OnClose has run, the inbound queue of every
\* operation registered in the OperationContext is closed (so that the calls
\* suspended on them return "Operation ends").
C4_OnCloseClosesQueues ==
  (ev.act = "OnClose") => \A t \in Tids : (handlers[t] # 0) => chClosed[handlers[t]]

\* C5: once an operation is CLOSED it stays CLOSED, and every call of one of
\* its methods is rejected with an error at once.
C5_ClosedForever ==
  [][\A o \in Ops :
       (status[o] = _CLOSED)
         => /\ status'[o] = _CLOSED
            /\ ((pc[o] = Idle) /\ (ev'.op = o) /\ (ev'.act \notin {"Close", "OnMessage"}))
                 => ((ev'.ph = "return") /\ (ev'.err # NoErr))]_vars

\* C6: Reset on an operation in FINAL returns no error, makes the status
\* CREATED and gives the operation a transaction id that TransactionId never
\* returned before; Reset in any other status returns an error and changes
\* neither the status nor the transaction id (nor anything else).
C6_Reset ==
  [][\A o \in Ops :
       ((ev'.act = "Reset") /\ (ev'.op = o))
         => IF status[o] = _FINAL
              THEN /\ ev'.err = NoErr
                   /\ status'[o] = _CREATED
                   /\ tid'[o] \notin issued
                   /\ tid'[o] \in issued'
              ELSE /\ ev'.err = BadStatus
                   /\ NothingChanges]_vars

C6_Witness ==
  /\ ev.act = "Reset"
  /\ ev.err = NoErr
  /\ ev.was = _FINAL
  /\ status[ev.op] = _CREATED
  /\ tid[ev.op] = 2
  /\ issued = {1, 2}

\* The call of method m on o is parked and its receive completes with a message.
Gets(o, m) == (pc[o].m = m) /\ Dequeues(o)

\* The call returns the cached response, with its error signal, without going
\* to the queue.
ReturnsCached(o, m) ==
  /\ ev' = Event(m, "return", o, ErrOf(response[o]), response[o], <<>>)
  /\ NothingChanges

\* C7: Submit (Request) on a CREATED operation, when Ctx.Send accepts the
\* message, emits exactly one SUBMIT (REQUEST) with the operation's transaction
\* id and emits nothing afterwards; its receive takes exactly one message from
\* the queue and the call returns; when that message is a SUBMIT_ACK
\* (REQUEST_RESPONSE) that is not an error, the call returns that message and no
\* error, the operation is FINAL and its transaction id has no entry in the
\* handlers map.
C7_SubmitRequest ==
  [][\A o \in Ops : \A m \in {"Submit", "Request"} :
       LET opening == IF m = "Submit" THEN "SUBMIT" ELSE "REQUEST"
           reply == IF m = "Submit" THEN "SUBMIT_ACK" ELSE "REQUEST_RESPONSE"
       IN /\ (CallStep(o, m) /\ (status[o] = _CREATED) /\ (ev'.err = NoErr))
               => ((ev'.out = <<OutMsg(opening, o)>>) /\ (ev'.ph = "wait"))
          /\ ((pc[o].m = m) /\ (pc'[o] # pc[o])) => (ev'.out = <<>>)
          /\ Gets(o, m)
               => /\ queue'[o] = Tail(queue[o])
                  /\ pc'[o] = Idle
                  /\ ev'.ph = "return"
          /\ (Gets(o, m) /\ (Head(queue[o]).stage = reply) /\ ~Head(queue[o]).err)
               => /\ ev'.msg = Head(queue[o])
                  /\ ev'.err = NoErr
                  /\ status'[o] = _FINAL
                  /\ handlers'[tid[o]] = 0]_vars

C7_Witness ==
  /\ ev.act = "Request"
  /\ ev.ph = "return"
  /\ ev.err = NoErr
  /\ ev.msg.stage = "REQUEST_RESPONSE"
  /\ ev.msg = ev.got
  /\ ev.was = _INITIATED
  /\ status[ev.op] = _FINAL
  /\ handlers[tid[ev.op]] = 0

\* C8: Invoke returns the (non-error) INVOKE_ACK and leaves the operation
\* ACKNOWLEDGED; GetResponse goes to the queue only in ACKNOWLEDGED, and in
\* CREATED or INITIATED returns "Bad operation status" without effect; its
\* receive of an INVOKE_RESPONSE returns that message with its error signal,
\* caches it and makes the operation FINAL; GetResponse in FINAL with a cached
\* response returns that response with the same error signal without going to
\* the queue; and only the receive of GetResponse changes the cached response.
C8_Invoke ==
  [][\A o \in Ops :
       /\ (Gets(o, "Invoke") /\ (Head(queue[o]).stage = "INVOKE_ACK") /\ ~Head(queue[o]).err)
            => /\ ev'.msg = Head(queue[o])
               /\ ev'.err = NoErr
               /\ ev'.ph = "return"
               /\ status'[o] = _ACKNOWLEDGED
       /\ (CallStep(o, "InvokeGetResponse") /\ (ev'.ph = "wait")) => (status[o] = _ACKNOWLEDGED)
       /\ (CallStep(o, "InvokeGetResponse") /\ (status[o] \in {_CREATED, _INITIATED}))
            => /\ ev' = Event("InvokeGetResponse", "return", o, BadStatus, NoMsg, <<>>)
               /\ NothingChanges
       /\ (Gets(o, "InvokeGetResponse") /\ (Head(queue[o]).stage = "INVOKE_RESPONSE"))
            => /\ ev'.msg = Head(queue[o])
               /\ ev'.err = ErrOf(Head(queue[o]))
               /\ ev'.ph = "return"
               /\ status'[o] = _FINAL
               /\ response'[o] = Head(queue[o])
       /\ (CallStep(o, "InvokeGetResponse") /\ (status[o] = _FINAL) /\ (response[o] # NoMsg))
            => ReturnsCached(o, "InvokeGetResponse")
       /\ ((kind[o] = "Invoke") /\ (response'[o] # response[o]))
            => (Gets(o, "InvokeGetResponse") /\ (response'[o] = Head(queue[o])))]_vars

C8_Witness ==
  /\ ev.act = "InvokeGetResponse"
  /\ ev.ph = "return"
  /\ ev.was = _FINAL
  /\ ev.got = NoMsg
  /\ ev.msg = response[ev.op]
  /\ ev.msg.stage = "INVOKE_RESPONSE"
  /\ ev.err = ErrorMessage
  /\ pc[ev.op] = Idle

GetResponseGets(o) == Gets(o, "ProgressGetResponse")

\* C10 as stated: GetResponse on a Progress operation in ACKNOWLEDGED or
\* PROGRESSING goes to the queue, a PROGRESS_UPDATE it finds there does not end
\* the call (it keeps waiting), and the call returns the PROGRESS_RESPONSE.
C10_GetResponseSkipsUpdates ==
  [][\A o \in Ops :
       /\ (CallStep(o, "ProgressGetResponse") /\ (status[o] \in {_ACKNOWLEDGED, _PROGRESSING}))
            => (ev'.ph = "wait")
       /\ (GetResponseGets(o) /\ (Head(queue[o]).stage = "PROGRESS_UPDATE"))
            => (pc'[o].m = "ProgressGetResponse")
       /\ (GetResponseGets(o) /\ (Head(queue[o]).stage = "PROGRESS_RESPONSE"))
            => (ev'.msg = Head(queue[o]))]_vars

\* C10, amended: GetResponse on a Progress operation in ACKNOWLEDGED or
\* PROGRESSING goes to the queue and waits for the next message; if that
\* message is the PROGRESS_RESPONSE the call returns it with its error signal,
\* caches it and the operation is FINAL; if it is anything else, a
\* PROGRESS_UPDATE included, the call returns "Bad return message" with no
\* message, the operation is FINAL and deregistered, and no response is cached.
C10_GetResponseNextMessage ==
  [][\A o \in Ops :
       /\ (CallStep(o, "ProgressGetResponse") /\ (status[o] \in {_ACKNOWLEDGED, _PROGRESSING}))
            => ((ev'.ph = "wait") /\ (pc'[o] = [m |-> "ProgressGetResponse", at |-> "recv"]))
       /\ GetResponseGets(o)
            => /\ queue'[o] = Tail(queue[o])
               /\ pc'[o] = Idle
               /\ status'[o] = _FINAL
               /\ handlers'[tid[o]] = 0
               /\ IF Head(queue[o]).stage = "PROGRESS_RESPONSE"
                    THEN /\ ev'.msg = Head(queue[o])
                         /\ ev'.err = ErrOf(Head(queue[o]))
                         /\ response'[o] = Head(queue[o])
                    ELSE /\ ev'.msg = NoMsg
                         /\ ev'.err = BadStage
                         /\ response'[o] = response[o]]_vars

C10_Witness ==
  /\ ev.act = "ProgressGetResponse"
  /\ ev.ph = "return"
  /\ ev.got.stage = "PROGRESS_UPDATE"
  /\ ev.err = BadStage
  /\ ev.msg = NoMsg
  /\ status[ev.op] = _FINAL
  /\ pc[ev.op] = Idle

\* C11: while Deregister of a subscriber waits, every PUBSUB_NOTIFY it takes
\* from the queue (error message or not) is discarded and the call goes back to
\* the queue without returning and without changing the status or the handlers
\* map; the PUBSUB_DEREGISTER_ACK that is not an error is returned with no
\* error, and the operation is then FINAL with no entry in the handlers map.
\* Deregister is accepted only in REGISTERED.
C11_DeregisterDrains ==
  [][\A o \in Ops :
       /\ (CallStep(o, "SubscriberDeregister") /\ (ev'.ph = "wait"))
            => ((status[o] = _REGISTERED) /\ (status'[o] = _DEREGISTER_INITIATED))
       /\ (Gets(o, "SubscriberDeregister") /\ (Head(queue[o]).stage = "PUBSUB_NOTIFY"))
            => /\ pc'[o] = [m |-> "SubscriberDeregister", at |-> "recv"]
               /\ ev'.ph = "again"
               /\ ev'.msg = NoMsg
               /\ ev'.err = NoErr
               /\ queue'[o] = Tail(queue[o])
               /\ status'[o] = status[o]
               /\ handlers' = handlers
       /\ (Gets(o, "SubscriberDeregister") /\ (Head(queue[o]).stage = "PUBSUB_DEREGISTER_ACK")
              /\ ~Head(queue[o]).err)
            => /\ ev'.ph = "return"
               /\ ev'.msg = Head(queue[o])
               /\ ev'.err = NoErr
               /\ pc'[o] = Idle
               /\ status'[o] = _FINAL
               /\ handlers'[tid[o]] = 0]_vars

C11_Witness ==
  /\ ev.act = "SubscriberDeregister"
  /\ ev.ph = "again"
  /\ ev.got.stage = "PUBSUB_NOTIFY"
  /\ ev.was = _DEREGISTER_INITIATED
  /\ status[ev.op] = _DEREGISTER_INITIATED
  /\ pc[ev.op] = [m |-> "SubscriberDeregister", at |-> "recv"]
  /\ handlers[tid[ev.op]] = ev.op

\* C12: Publish is accepted only in REGISTERED; an accepted Publish whose
\* message Ctx.Send takes emits exactly one PUBSUB_PUBLISH with the operation's
\* transaction id, returns at once without touching the queue, and leaves the
\* status REGISTERED and everything else of the operation unchanged.
C12_Publish ==
  [][\A o \in Ops :
       CallStep(o, "Publish")
         => /\ ev'.ph = "return"
            /\ pc'[o] = Idle
            /\ queue' = queue
            /\ (status[o] # _REGISTERED)
                 => ((ev'.err = BadStatus) /\ (ev'.out = <<>>) /\ NothingChanges)
            /\ (ev'.out # <<>>)
                 => ((status[o] = _REGISTERED) /\ (ev'.out = <<OutMsg("PUBSUB_PUBLISH", o)>>))
            /\ ((status[o] = _REGISTERED) /\ (ev'.err = NoErr))
                 => /\ ev'.out = <<OutMsg("PUBSUB_PUBLISH", o)>>
                    /\ status'[o] = _REGISTERED
                    /\ NothingChanges]_vars

C12_Witness ==
  /\ ev.act = "Publish"
  /\ ev.ph = "return"
  /\ ev.err = NoErr
  /\ ev.was = _REGISTERED
  /\ ev.out = <<OutMsg("PUBSUB_PUBLISH", ev.op)>>
  /\ status[ev.op] = _REGISTERED
  /\ queue[ev.op] # <<>>

\* C13: OnMessage puts a message on the queue of the operation it is routed to
\* only if the message's coordinates equal the operation's and its interaction
\* type is the one of the operation's pattern, and then at the end of the queue;
\* any other message is dropped and changes nothing; no OnMessage step changes
\* a status; and nothing but OnMessage adds a message to a queue.
C13_OnMessageGated ==
  [][\A o \in Ops :
       /\ ((ev'.act = "OnMessage") /\ (ev'.op = o))
            => /\ (queue'[o] # queue[o])
                    => /\ ev'.inb.coords = OpCoords
                       /\ ev'.inb.type = TypeOf(kind[o])
                       /\ queue'[o] = Append(queue[o], ev'.msg)
               /\ ((ev'.inb.coords # OpCoords) \/ (ev'.inb.type # TypeOf(kind[o])))
                    => ((ev'.ph = "dropped") /\ NothingChanges)
               /\ status' = status
       /\ (Len(queue'[o]) > Len(queue[o])) => (ev'.act = "OnMessage")]_vars

C13_Witness ==
  /\ ev.act = "OnMessage"
  /\ ev.ph = "dropped"
  /\ ev.inb.type = TypeOf(kind[ev.op])
  /\ ev.inb.coords # OpCoords
  /\ handlers[tid[ev.op]] = ev.op
  /\ pc[ev.op].at = "parked"
  /\ queue[ev.op] = <<>>

\* The call of m on o is parked and its receive completes with an error
\* message of a stage that is legal for the wait.
GetsErrorReply(o, m) ==
  Gets(o, m) /\ (Head(queue[o]).stage \in LegalStages(m)) /\ Head(queue[o]).err

\* The call returns the message it received together with "Error message".
ReturnsErrorReply(o) ==
  /\ ev'.ph = "return"
  /\ ev'.msg = Head(queue[o])
  /\ ev'.err = ErrorMessage
  /\ pc'[o] = Idle

\* C14 as stated: in every wait, a reply of a legal stage whose error flag is
\* set is returned by that call together with an error.
C14_ErrorReplyReturned ==
  [][\A o \in Ops : \A m \in WaitingMethods :
       GetsErrorReply(o, m) => ReturnsErrorReply(o)]_vars

\* C14, amended: a reply of a legal stage whose error flag is set is returned
\* by the call that received it together with "Error message", except in two
\* waits: GetUpdate that receives the PROGRESS_RESPONSE returns no message and
\* no error and caches the response (GetResponse then returns it with "Error
\* message"), and Deregister of a subscriber that receives a PUBSUB_NOTIFY
\* discards it and keeps waiting.
C14_ErrorReplyReturnedExceptDrained ==
  [][\A o \in Ops : \A m \in WaitingMethods :
       GetsErrorReply(o, m)
         => IF (m = "GetUpdate") /\ (Head(queue[o]).stage = "PROGRESS_RESPONSE")
              THEN /\ ev'.ph = "return"
                   /\ ev'.msg = NoMsg
                   /\ ev'.err = NoErr
                   /\ response'[o] = Head(queue[o])
                   /\ status'[o] = _FINAL
              ELSE IF (m = "SubscriberDeregister") /\ (Head(queue[o]).stage = "PUBSUB_NOTIFY")
                     THEN /\ ev'.ph = "again"
                          /\ ev'.msg = NoMsg
                          /\ ev'.err = NoErr
                          /\ pc'[o] = [m |-> m, at |-> "recv"]
                     ELSE ReturnsErrorReply(o)]_vars

C14_Witness ==
  /\ ev.act = "GetNotify"
  /\ ev.ph = "return"
  /\ ev.got.stage = "PUBSUB_NOTIFY"
  /\ ev.got.err
  /\ ev.msg = ev.got
  /\ ev.err = ErrorMessage
  /\ pc[ev.op] = Idle

\* The methods that hand a message to Ctx.Send.
SendingMethods ==
  {"Send", "Submit", "Request", "Invoke", "Progress", "SubscriberRegister",
   "SubscriberDeregister", "PublisherRegister", "Publish", "PublisherDeregister"}

\* C15: when Ctx.Send returns an error inside a method, the call returns that
\* error at once (it does not go to the queue), the operation is FINAL and its
\* transaction id has no entry in the handlers map.
C15_SendFailureFinalizes ==
  [][\A o \in Ops : \A m \in SendingMethods :
       (CallStep(o, m) /\ (ev'.err = SendFailed))
         => /\ ev'.ph = "return"
            /\ pc'[o] = Idle
            /\ status'[o] = _FINAL
            /\ handlers'[tid[o]] = 0]_vars

\* The transaction ids TransactionId has returned to goroutine t.
IdsOf(t) == {th[t].ids[i] : i \in DOMAIN th[t].ids}

\* C16: whatever the interleaving of the goroutines that call TransactionId
\* (through the constructors and Reset), the values returned are pairwise
\* distinct, across goroutines and within one; the first value ever returned
\* is 1; and the values one goroutine receives are strictly increasing in
\* the order of its calls.
C16_TransactionIdsUnique ==
  /\ \A t \in Threads : \A i, j \in DOMAIN th[t].ids :
        (i < j) => (th[t].ids[i] < th[t].ids[j])
  /\ \A t, u \in Threads : (t # u) => (IdsOf(t) \cap IdsOf(u) = {})
  /\ issued = UNION {IdsOf(t) : t \in Threads}
  /\ (Cardinality(issued) = 1) => (issued = {1})
  /\ (issued # {}) => (1 \in issued)

C16_Witness ==
  /\ Len(th[1].ids) >= 1
  /\ Len(th[2].ids) >= 2
  /\ th[2].ids[1] < th[1].ids[1]
  /\ th[1].ids[1] < th[2].ids[2]

\* Operation o has been constructed and is neither FINAL nor CLOSED.
Live(o) == (kind[o] # "none") /\ (status[o] \notin {_FINAL, _CLOSED})

\* C17: two distinct operations of the OperationContext, whichever
\* constructor made them and however often they were reset, that are both
\* neither FINAL nor CLOSED have different transaction ids.
C17_LiveOperationsDistinctTids ==
  \A o, p \in GOps : ((o # p) /\ Live(o) /\ Live(p)) => (tid[o] # tid[p])

C17_Witness ==
  /\ Live(1)
  /\ Live(2)
  /\ kind[1] # kind[2]
  /\ tid[1] = MaxTid + 1
  /\ status[2] = _INITIATED

\* The maps h and g are equal except, possibly, at transaction id t.
SameExceptAt(h, g, t) == \A u \in DOMAIN h : (u # t) => (g[u] = h[u])

\* C18: on the handlers map as it is, for every transaction id and operation:
\* register fails when the id has an entry and otherwise adds exactly the entry
\* id -> operation; deregister fails when the id has no entry and otherwise
\* removes exactly that entry; a call that fails leaves the map as it was.
C18_RegisterDeregister ==
  \A t \in Tids :
    /\ \A o \in Ops :
         LET r == register(handlers, t, o)
         IN IF handlers[t] # 0
              THEN (r.err = AlreadyRegistered) /\ (r.handlers = handlers)
              ELSE /\ r.err = NoErr
                   /\ r.handlers[t] = o
                   /\ SameExceptAt(handlers, r.handlers, t)
    /\ LET d == deregister(handlers, t)
       IN IF handlers[t] = 0
            THEN (d.err = NotRegistered) /\ (d.handlers = handlers)
            ELSE /\ d.err = NoErr
                 /\ d.handlers[t] = 0
                 /\ SameExceptAt(handlers, d.handlers, t)

\* A Submit has registered its operation and is waiting: one id has an entry
\* and another has none.
C18_Witness ==
  /\ \E o \in Ops : (pc[o].m = "Submit") /\ (pc[o].at = "parked") /\ (handlers[tid[o]] = o)
  /\ \E t \in Tids : handlers[t] = 0

\* Goroutine t takes a step of a call whose register has found the
\* transaction id already registered.
AfterDuplicate(t) == (th[t].err = AlreadyRegistered) /\ (th'[t] # th[t])

\* C19: an initiate call that finds its transaction id already registered
\* changes no state on its way to returning the error: the status of every
\* operation and the handlers map, which maps the id to the operation that
\* was registered first, stay as they are.
C19_DuplicateChangesNothing ==
  [][\A t \in Threads :
       AfterDuplicate(t) => (status' = status) /\ (handlers' = handlers)]_vars

\* C20: the accesses to the handlers map exclude each other: at most one
\* goroutine at a time is inside register or deregister, so that no map write
\* happens while another goroutine uses the map and the runtime never stops
\* the program for a concurrent map access.
C20_MapAccessExclusive == (Cardinality(MapUsers) <= 1) /\ ~fatal

DeclaredStatuses(k) ==
  CASE k \in {"Send", "Submit", "Request"} -> {_CREATED, _INITIATED, _FINAL}
    [] k = "Invoke" -> {_CREATED, _INITIATED, _ACKNOWLEDGED, _FINAL}
    [] k = "Progress" -> {_CREATED, _INITIATED, _ACKNOWLEDGED, _PROGRESSING, _FINAL}
    [] OTHER -> {_CREATED, _REGISTER_INITIATED, _REGISTERED, _DEREGISTER_INITIATED, _FINAL}

C23_RegisterHandlerOnce ==
  [][(hev'.act = "Register")
       => LET c == hev'.coords
          IN IF hctxHandlers[key(c)] # NoDesc
               THEN /\ hev'.err # NoErr
                    /\ hctxHandlers' = hctxHandlers
               ELSE /\ hev'.err = NoErr
                    /\ hctxHandlers'[key(c)].handlerType = hev'.type
                    /\ hctxHandlers'[key(c)].handler = hev'.handler
                    /\ hctxHandlers'[key(c)].coords = c
                    /\ \A k \in DOMAIN hctxHandlers :
                         (k # key(c)) => (hctxHandlers'[k] = hctxHandlers[k])]_vars

\* A handler of another type and another callback was registered on a key
\* that was taken: the call failed and the first descriptor is in the map.
C23_Witness ==
  /\ hev.act = "Register"
  /\ hev.err = HandlerRegistered
  /\ hev.before # NoDesc
  /\ hev.before.handlerType # hev.type
  /\ hev.before.handler # hev.handler
  /\ hctxHandlers[key(hev.coords)] = hev.before

\* The handler type that corresponds to each interaction type.
TypePairs ==
  {<<"SEND", "SEND_HANDLER">>, <<"SUBMIT", "SUBMIT_HANDLER">>,
   <<"REQUEST", "REQUEST_HANDLER">>, <<"INVOKE", "INVOKE_HANDLER">>,
   <<"PROGRESS", "PROGRESS_HANDLER">>, <<"PUBSUB", "BROKER_HANDLER">>}

\* C24 as stated: OnMessage invokes a handler only if it is the one registered
\* under the message's four coordinates with the handler type that corresponds
\* to the message's interaction type; whenever there is no descriptor under
\* the key or its type is not the corresponding one, whatever the message's
\* interaction type, no handler is invoked and OnMessage returns an error.
C24_NoHandlerIsAnError ==
  (hev.act = "OnMessage")
    => LET d == hctxHandlers[key(hev.msg.coords)]
       IN /\ (hev.invoked # 0)
               => /\ d # NoDesc
                  /\ d.coords = hev.msg.coords
                  /\ <<hev.msg.type, d.handlerType>> \in TypePairs
                  /\ d.handler = hev.invoked
          /\ ((d = NoDesc) \/ (<<hev.msg.type, d.handlerType>> \notin TypePairs))
               => /\ hev.invoked = 0
                  /\ hev.err # NoErr

\* C24: for a message of one of the six interaction types, OnMessage invokes
\* a handler only if it is the one registered under the message's four
\* coordinates, with the handler type that corresponds to the message's
\* interaction type; if there is no descriptor under the key or its type is
\* another one, no handler is invoked and OnMessage returns an error. For a
\* message of any other interaction type no handler is invoked and OnMessage
\* returns no error.
C24_DispatchExact ==
  (hev.act = "OnMessage")
    => LET d == hctxHandlers[key(hev.msg.coords)]
       IN IF hev.msg.type \in Types
            THEN /\ (hev.invoked # 0)
                      => /\ d # NoDesc
                         /\ d.coords = hev.msg.coords
                         /\ <<hev.msg.type, d.handlerType>> \in TypePairs
                         /\ d.handler = hev.invoked
                 /\ ((d = NoDesc) \/ (<<hev.msg.type, d.handlerType>> \notin TypePairs))
                      => /\ hev.invoked = 0
                         /\ hev.err # NoErr
            ELSE /\ hev.invoked = 0
                 /\ hev.tx = NoTransaction
                 /\ hev.err = NoErr

\* A message whose key has a handler of another type, while a handler of the
\* message's type is registered under another key: none is invoked.
C24_Witness ==
  /\ hev.act = "OnMessage"
  /\ hev.msg.type = "SUBMIT"
  /\ hev.err = BadHandlerType
  /\ hev.invoked = 0
  /\ \E c \in Coords : /\ c # hev.msg.coords
                        /\ hctxHandlers[key(c)].handlerType = "SUBMIT_HANDLER"

\* C25: for a PUBSUB message whose key has a broker handler, OnMessage passes
\* the handler a PublisherTransaction for the three stages of a publisher, a
\* SubscriberTransaction for PUBSUB_REGISTER and PUBSUB_DEREGISTER, and for
\* every other stage returns the bad-stage error without invoking the handler;
\* the transaction carries the transaction id of the message, its UriFrom and
\* its four coordinates.
C25_BrokerTransactions ==
  LET d == hctxHandlers[key(hev.msg.coords)]
  IN ((hev.act = "OnMessage") /\ (hev.msg.type = "PUBSUB") /\ (d.handlerType = "BROKER_HANDLER"))
       => IF hev.msg.stage \in {"PUBSUB_PUBLISH_REGISTER", "PUBSUB_PUBLISH",
                                "PUBSUB_PUBLISH_DEREGISTER", "PUBSUB_REGISTER",
                                "PUBSUB_DEREGISTER"}
            THEN /\ hev.invoked = d.handler
                 /\ hev.tx.kind = IF hev.msg.stage \in {"PUBSUB_REGISTER", "PUBSUB_DEREGISTER"}
                                    THEN "SubscriberTransaction"
                                    ELSE "PublisherTransaction"
                 /\ hev.tx.tid = hev.msg.tid
                 /\ hev.tx.urifrom = hev.msg.from
                 /\ hev.tx.coords = hev.msg.coords
            ELSE /\ hev.invoked = 0
                 /\ hev.tx = NoTransaction
                 /\ hev.err = BadPubSubStage

\* A PUBSUB_NOTIFY delivered to a key that has a broker handler.
C25_Witness ==
  /\ hev.act = "OnMessage"
  /\ hev.msg.stage = "PUBSUB_NOTIFY"
  /\ hctxHandlers[key(hev.msg.coords)].handlerType = "BROKER_HANDLER"
  /\ hev.err = BadPubSubStage
  /\ hev.invoked = 0

\* The two 16-bit halves of four bytes read as a big-endian number.
BigEndian(b) == U32(b[1] * (2^8) + b[2], b[3] * (2^8) + b[4])

\* The two 16-bit halves of a number below 2^31, and of 23 plus a uint32.
Halves(n) == U32(n \div (2^16), n % (2^16))
Plus23(u) == U32((u.hi + (u.lo + 23) \div (2^16)) % (2^16), (u.lo + 23) % (2^16))

\* C26: every frame writeMessage puts on a connection has, at offsets 19..22,
\* the big-endian value of its length in bytes minus 23, whatever the encoder
\* had left there.
C26_LengthFieldStamped ==
  /\ \A i \in DOMAIN wire : BigEndian(wire[i].len) = Halves(wire[i].size - 23)
  /\ ((fev.act = "write") /\ (fev.err = NoErr))
       => /\ BigEndian(fev.hdr) = Halves(fev.size - 23)
          /\ wire # <<>>
          /\ wire[Len(wire)].size = fev.size
          /\ wire[Len(wire)].len = fev.hdr

\* A frame of 489 body bytes whose encoder had left 255 in the four bytes is
\* on the connection with 0, 0, 1, 233 in them.
C26_Witness ==
  /\ fev.act = "write"
  /\ fev.err = NoErr
  /\ fev.ph = <<255, 255, 255, 255>>
  /\ fev.size = 23 + 489
  /\ wire[Len(wire)] = [size |-> 512, len |-> <<0, 0, 1, 233>>]

\* C27: for every body length L at offsets 19..22 the reader takes 23 + L
\* bytes for the frame, so that it is at a frame boundary after every read and
\* every frame written by writeMessage is read back as one frame.
C27_ReaderFramesExactly ==
  /\ roff = 0
  /\ ((fev.act = "read") /\ (fev.hdr # <<>>))
       => (fev.length = Plus23(BigEndian(fev.hdr)))

\* C28: no caller of Transmit is ever suspended on the channel send.
C28_TransmitNeverSuspends == ~txWait

\* C29: once Close has run, handleOut eventually leaves its loop and
\* handleConn eventually leaves its own.
C29_TasksTerminate ==
  tchClosed ~> ((outPc = "exited") /\ (acceptPc = "exited"))

\* C30: when handleOut's write on a connection found in the cache fails, the
\* entry of the host is removed from transport.conns.
C30_FailedConnectionEvicted ==
  [][((tev'.act = "out") /\ (tev'.err = WriteFailed) /\ tev'.cached)
       => (conns'[tev'.host] = 0)]_vars

\* C31: once Close has run on the transport, no socket of the transport is
\* open: neither a connection handleOut dialed nor a connection handleConn
\* accepted.
C31_CloseClosesEverySocket ==
  (listen = "closed")
    => /\ \A c \in ConnIds : cnxState[c] \in {"none", "closed"}
       /\ \A i \in InIds : inbound[i].cnx \in {"none", "closed"}

\* C32: when the Read of a handleIn goroutine returns an error, the goroutine
\* leaves its loop.
C32_ReadErrorEndsInboundTask ==
  [][((tev'.act = "in") /\ (tev'.err = ReadFailed))
       => (inbound'[tev'.cnx].at = "exited")]_vars

\* C40: no call of Transmit sends on the outbound channel once Close has
\* closed it.
C40_TransmitNeverSendsOnClosed == tev.err # SendOnClosed


\* Every method call has returned: no calling goroutine is inside a call.
AllReturned == \A o \in Ops : pc[o] = Idle

\* The statuses of an interaction that has started and has not ended.
NonTerminal ==
  {_INITIATED, _ACKNOWLEDGED, _PROGRESSING, _REGISTER_INITIATED, _REGISTERED,
   _DEREGISTER_INITIATED}

\* C33: once every method call has returned, an operation whose status is
\* FINAL or CLOSED has no entry in the handlers map, every entry of the map
\* refers to an operation in a non-terminal status, and a Send operation is
\* never in the map.
C33_MapHoldsLiveOperationsOnly ==
  /\ AllReturned
       => /\ \A o \in Ops : \A t \in Tids :
                ((kind[o] # "none") /\ (status[o] \in {_FINAL, _CLOSED}))
                  => (handlers[t] # o)
          /\ \A t \in Tids :
                (handlers[t] # 0) => (status[handlers[t]] \in NonTerminal)
  /\ \A o \in Ops : \A t \in Tids : (kind[o] = "Send") => (handlers[t] # o)

\* C34: Close on an operation that is not registered (its status is CREATED
\* or FINAL) does not call deregister and returns no error: the map is as it
\* was and the error returned is nil.
C34_CloseOfUnregisteredReturnsNil ==
  [][\A o \in Ops :
       ((ev'.act = "Close") /\ (ev'.op = o) /\ (status[o] \in {_CREATED, _FINAL}))
         => /\ ev'.err = NoErr
            /\ handlers' = handlers]_vars

\* C35: OperationContext.OnMessage hands a message to the operation that is
\* registered under the message's transaction id and to no other; when no
\* operation is registered under it the message is dropped; in both cases
\* OnMessage returns nil, and no status, no map entry and no other queue
\* changes.
C35_OnMessageRoutesByTid ==
  [][(ev'.act = "OnMessage")
       => /\ ev'.err = NoErr
          /\ status' = status
          /\ handlers' = handlers
          /\ \A o \in Ops :
                (queue'[o] # queue[o])
                  => /\ ev'.msg.tid \in Tids
                     /\ handlers[ev'.msg.tid] = o
                     /\ queue'[o] = Append(queue[o], ev'.msg)
          /\ (ev'.ph = "unrouted")
                => /\ \E t \in Tids : handlers[t] = 0
                   /\ queue' = queue]_vars

\* A message arrives under a transaction id that has no entry while the
\* operation, registered under its own, waits on its queue: the message is
\* dropped and the queue stays empty.
C35_Witness ==
  /\ ev.act = "OnMessage"
  /\ ev.ph = "unrouted"
  /\ \E o \in Ops : /\ kind[o] # "none"
                    /\ handlers[tid[o]] = o
                    /\ pc[o].at = "parked"
                    /\ queue[o] = <<>>

\* C36: every message a call takes from the queue of its operation was sent
\* under the operation's current transaction id: after Reset, no call reads a
\* message that was enqueued for the previous transaction id and left unread.
C36_MessagesCarryCurrentTid ==
  [][\A o \in Ops :
       ((ev'.op = o) /\ (ev'.got # NoMsg)) => (ev'.got.tid = tid[o])]_vars

\* The two GetResponse.
GetResponseMethods == {"InvokeGetResponse", "ProgressGetResponse"}

\* C37: GetResponse called on an operation in FINAL returns the cached
\* response only if that response was received under the operation's current
\* transaction id; otherwise (after Reset and an interaction that ended
\* without a response) it returns 'Bad operation status'.
C37_CachedResponseIsCurrent ==
  [][\A o \in Ops :
       ((ev'.act \in GetResponseMethods) /\ (ev'.op = o) /\ (pc[o] = Idle)
          /\ (status[o] = _FINAL))
         => IF (response[o] # NoMsg) /\ (response[o].tid = tid[o])
              THEN ev'.msg = response[o]
              ELSE (ev'.err = BadStatus) /\ (ev'.msg = NoMsg)]_vars

\* C38: whatever the interleaving of Close on an operation with the delivery
\* of a message for the operation's transaction id, the delivering goroutine
\* never sends on a channel that has been closed (the send panics) and never
\* on a nil channel (the send blocks for ever).
C38_DeliveryNeverMeetsClosedQueue ==
  /\ ~fatal
  /\ rcv.at # "panic"
  /\ rcv.at # "nilchan"

\* C39: a message that the peer has sent for operation 2 is eventually put on
\* the queue of operation 2, whether or not the goroutine that owns operation
\* 1 reads its own queue: a full queue of operation 1 does not hold the
\* delivering goroutine back.
C39_DeliveredWhateverOthersRead ==
  (\E i \in DOMAIN sock : sock[i] = 2)
    ~> ((rcv.at = "read") /\ (rcv.tid = 2) /\ (rcv.op = 2))

============================================================================
